---- MODULE Spec2Model ----
(***************************************************************************)
(* A model of avalanchego's rpcchainvm client adapter (VMClient), its      *)
(* remote block handles (blockClient) and the plugin lifecycle             *)
(* (SetProcess / Initialize / CreateHandlers / Shutdown), translated from  *)
(* vms/rpcchainvm/vm_client.go.                                            *)
(*                                                                         *)
(* The plugin on the other end of the RPC channel is the environment: each *)
(* remote call either fails in transport or answers with any response of   *)
(* a small response set, malformed ones included.                          *)
(***************************************************************************)
EXTENDS Integers, Sequences, FiniteSets, TLC

(***************************************************************************)
(* Bounds of the model.                                                    *)
(***************************************************************************)
\* longest request / response list of BatchedParseBlock
MaxBatch == 2
\* versioned databases the database manager exposes, at most
MaxDBs == 2
\* auxiliary connections the adapter accumulates, at most
MaxConns == 2

(***************************************************************************)
(* Errors.  A Go error value is a record; Nil is the nil error.            *)
(***************************************************************************)
Err(kind, n) == [kind |-> kind, n |-> n]
Nil == Err("nil", 0)

errUnsupportedFXs == Err("unsupported feature extensions", 0)
errBatchedParseBlockWrongNumberOfBlocks ==
    Err("BatchedParseBlock returned different number of blocks than expected", 0)
\* any failure of the RPC transport (timeout, cancellation, connection loss)
ErrTransport == Err("transport", 0)
\* ids.ToID on a byte slice of the wrong length
errBadIDLength == Err("invalid hash length", 0)
\* choices.Status.Valid on an unknown status value
errUnknownStatus == Err("unknown status", 0)
\* timestamppb CheckValid on an out-of-range timestamp
errInvalidTimestamp == Err("invalid timestamp", 0)

\* the typed errors of the shared error-code table
ErrClosed == Err("closed", 0)
ErrNotFound == Err("not found", 0)
ErrHeightIndexedVMNotImplemented == Err("vm does not implement HeightIndexedChainVM interface", 0)
ErrIndexIncomplete == Err("query failed because height index is incomplete", 0)
ErrStateSyncableVMNotImplemented == Err("vm does not implement StateSyncableVM interface", 0)

\* error codes a response may carry: 0, the table's codes, and one past them
MaxErrCode == 6
ErrCodes == 0..MaxErrCode

\* errCodeToError[code]: a Go map lookup, nil for a code the map has no entry for
errCodeToError(code) ==
    CASE code = 1 -> ErrClosed
      [] code = 2 -> ErrNotFound
      [] code = 3 -> ErrHeightIndexedVMNotImplemented
      [] code = 4 -> ErrIndexIncomplete
      [] code = 5 -> ErrStateSyncableVMNotImplemented
      [] OTHER -> Nil

\* no call under way.  A frame and the record of a returned call carry op, the
\* method they belong to, as their first field: records of different methods
\* have fields of different shapes and differ in op already.
NoFrame == [op |-> "none"]

(***************************************************************************)
(* Identifiers, payloads, statuses and timestamps as they cross the wire.  *)
(***************************************************************************)
\* length of an identifier in bytes (scaled down from 32)
IDLen == 2
\* ids.Empty
EmptyID == <<0, 0>>
\* identifier fields of a response: two well-formed ones and a short one
WireIDs == {<<1, 1>>, <<1, 2>>, <<1>>}
ValidIDs == {i \in WireIDs : Len(i) = IDLen}

\* ids.ToID: the identifier of a byte slice, or an error when its length is wrong
ToID(bytes) ==
    IF Len(bytes) = IDLen
    THEN [id |-> bytes, err |-> Nil]
    ELSE [id |-> EmptyID, err |-> errBadIDLength]

\* opaque serialized payloads
Payloads == {<<5>>, <<6>>}
NilBytes == <<>>
Heights == {1, 7}

\* choices.Status
Unknown == 0
Processing == 1
Rejected == 2
Accepted == 3
\* status values of a response: the four statuses and one that is none of them
WireStatuses == 0..4

\* choices.Status.Valid
StatusValid(status) ==
    IF status \in {Accepted, Rejected, Processing, Unknown}
    THEN Nil
    ELSE errUnknownStatus

\* wire timestamps: two valid instants and one with negative nanoseconds
WireTimestamps ==
    {[seconds |-> 1, nanos |-> 0], [seconds |-> 2, nanos |-> 0],
     [seconds |-> 1, nanos |-> -1]}
NilTimestamp == [seconds |-> 0, nanos |-> 0]
\* time.Time{}
ZeroTime == [isZero |-> TRUE, sec |-> 0, nsec |-> 0]

\* grpcutils.TimestampAsTime: the local time of a wire timestamp, or the zero
\* time and an error when the timestamp is not valid
TimestampAsTime(ts) ==
    IF ts.nanos < 0
    THEN [time |-> ZeroTime, err |-> errInvalidTimestamp]
    ELSE [time |-> [isZero |-> FALSE, sec |-> ts.seconds, nsec |-> ts.nanos],
          err |-> Nil]

(***************************************************************************)
(* Block handles (blockClient).  A nil pointer is the handle NilBlock.     *)
(***************************************************************************)
NilBlock ==
    [nil |-> TRUE, id |-> EmptyID, parentID |-> EmptyID, status |-> Unknown,
     bytes |-> NilBytes, height |-> 0, time |-> ZeroTime]

\* &blockClient{vm, id, parentID, status, bytes, height, time}
blockClient(id, parentID, status, bytes, height, time) ==
    [nil |-> FALSE, id |-> id, parentID |-> parentID, status |-> status,
     bytes |-> bytes, height |-> height, time |-> time]

\* the accessors of blockClient: each returns a field of the handle
ID(blk) == blk.id
Parent(blk) == blk.parentID
Status(blk) == blk.status
Bytes(blk) == blk.bytes
Height(blk) == blk.height
Timestamp(blk) == blk.time

\* what the plugin may answer to a call that yields one block
BlockResponses ==
    [Id : WireIDs, ParentId : WireIDs, Status : WireStatuses, Bytes : Payloads,
     Height : Heights, Timestamp : WireTimestamps, Err : ErrCodes]
NilResponse ==
    [Id |-> <<>>, ParentId |-> <<>>, Status |-> 0, Bytes |-> NilBytes,
     Height |-> 0, Timestamp |-> NilTimestamp, Err |-> 0]

\* the outcomes of one remote call: a transport error, or one of `resps`
RPC(resps) ==
    {[err |-> ErrTransport, resp |-> NilResponse]}
        \cup {[err |-> Nil, resp |-> r] : r \in resps}

VARIABLES
    b,      \* the block handle under observation (NilBlock: none built yet)
    call    \* the adapter call that returned last: name, input, remote
            \* requests it issued, the plugin's answer, its result and error


VARIABLES
    pc,         \* where the engine thread stands: "idle", a step of Initialize
                \* or of Shutdown, or "done" once Shutdown has returned
    frame,      \* arguments and locals of the Initialize or Shutdown under way
    vm,         \* the fields of the VMClient
    servers,    \* the gRPC servers launched on local listeners, in launch order
    procs,      \* pids of the plugin processes that are alive
    tracked,    \* pids the process tracker tracks
    closed,     \* identities of the client connections Close was called on
    sent,       \* the requests issued to the plugin by lifecycle calls, in order
    initCalled, \* whether an Initialize call passed the feature-extension check
    router,     \* the HTTP server's router: its lock and the routes it serves
    engine      \* the chain of the HTTP server: its context's lock and state

steadyVars == <<b, call>>
httpVars == <<router, engine>>
lifeVars == <<pc, frame, vm, servers, procs, tracked, closed, sent, initCalled,
              httpVars>>
vars == <<b, call, pc, frame, vm, servers, procs, tracked, closed, sent, initCalled,
          router, engine>>

NoCall == [op |-> "none", in |-> <<>>, rpcs |-> <<>>, rpcErr |-> Nil,
           resp |-> NilResponse, out |-> NilBlock, err |-> Nil]

\* VMClient.buildBlock
buildBlock(r) ==
    IF r.err # Nil THEN [blk |-> NilBlock, err |-> r.err]
    ELSE LET id == ToID(r.resp.Id)
             parentID == ToID(r.resp.ParentId)
             time == TimestampAsTime(r.resp.Timestamp)
         IN  IF id.err # Nil THEN [blk |-> NilBlock, err |-> id.err]
             ELSE IF parentID.err # Nil THEN [blk |-> NilBlock, err |-> parentID.err]
             ELSE [blk |-> blockClient(id.id, parentID.id, Processing,
                                       r.resp.Bytes, r.resp.Height, time.time),
                   err |-> time.err]

\* a parseBlock that keeps the payload the plugin echoes
ParseBlockBytesEcho(bytes, resp) == resp.Bytes
\* the bytes parseBlock puts in the handle: the caller's
ParseBlockBytes(bytes, resp) == bytes

\* VMClient.parseBlock
parseBlock(bytes, r) ==
    IF r.err # Nil THEN [blk |-> NilBlock, err |-> r.err]
    ELSE LET id == ToID(r.resp.Id)
             parentID == ToID(r.resp.ParentId)
             status == r.resp.Status
             time == TimestampAsTime(r.resp.Timestamp)
         IN  IF id.err # Nil THEN [blk |-> NilBlock, err |-> id.err]
             ELSE IF parentID.err # Nil THEN [blk |-> NilBlock, err |-> parentID.err]
             ELSE IF StatusValid(status) # Nil
                  THEN [blk |-> NilBlock, err |-> StatusValid(status)]
             ELSE [blk |-> blockClient(id.id, parentID.id, status,
                                       ParseBlockBytes(bytes, r.resp),
                                       r.resp.Height, time.time),
                   err |-> time.err]

\* VMClient.getBlock
getBlock(blkID, r) ==
    IF r.err # Nil THEN [blk |-> NilBlock, err |-> r.err]
    ELSE IF r.resp.Err # 0 THEN [blk |-> NilBlock, err |-> errCodeToError(r.resp.Err)]
    ELSE LET parentID == ToID(r.resp.ParentId)
             status == r.resp.Status
             time == TimestampAsTime(r.resp.Timestamp)
         IN  IF parentID.err # Nil THEN [blk |-> NilBlock, err |-> parentID.err]
             ELSE IF StatusValid(status) # Nil
                  THEN [blk |-> NilBlock, err |-> StatusValid(status)]
             ELSE [blk |-> blockClient(blkID, parentID.id, status, r.resp.Bytes,
                                       r.resp.Height, time.time),
                   err |-> time.err]

(***************************************************************************)
(* BatchedParseBlock.                                                      *)
(***************************************************************************)
\* entries of a BatchedParseBlock response: two well-formed ones that differ in
\* every field, and one malformed in each of the fields the adapter decodes
BatchEntries ==
    {[Id |-> <<1, 1>>, ParentId |-> <<1, 2>>, Status |-> Processing, Height |-> 1,
      Timestamp |-> [seconds |-> 1, nanos |-> 0]],
     [Id |-> <<1, 2>>, ParentId |-> <<1, 1>>, Status |-> Accepted, Height |-> 7,
      Timestamp |-> [seconds |-> 2, nanos |-> 0]],
     [Id |-> <<1>>, ParentId |-> <<1, 2>>, Status |-> Processing, Height |-> 1,
      Timestamp |-> [seconds |-> 1, nanos |-> 0]],
     [Id |-> <<1, 1>>, ParentId |-> <<1>>, Status |-> Processing, Height |-> 1,
      Timestamp |-> [seconds |-> 1, nanos |-> 0]],
     [Id |-> <<1, 1>>, ParentId |-> <<1, 2>>, Status |-> 4, Height |-> 1,
      Timestamp |-> [seconds |-> 1, nanos |-> 0]],
     [Id |-> <<1, 1>>, ParentId |-> <<1, 2>>, Status |-> Processing, Height |-> 1,
      Timestamp |-> [seconds |-> 1, nanos |-> -1]]}

\* the sequences over S of length at most n
SeqUpTo(S, n) == UNION {[1..k -> S] : k \in 0..n}

\* a []snowman.Block result: the nil slice, or a slice of handles
NilBlocks == [nil |-> TRUE, blks |-> <<>>]
Blocks(blks) == [nil |-> FALSE, blks |-> blks]

\* the input bytes BatchedParseBlock puts in the handle of response entry idx,
\* mistaken for the bytes of the first input
BatchBytesFirst(blksBytes, idx) == blksBytes[1]
\* the input bytes BatchedParseBlock puts in the handle of response entry idx
BatchBytes(blksBytes, idx) == blksBytes[idx]

\* one iteration of BatchedParseBlock's loop: the handle of response entry idx,
\* or the error that ends the call
batchEntry(blksBytes, idx, blkResp) ==
    LET id == ToID(blkResp.Id)
        parentID == ToID(blkResp.ParentId)
        status == blkResp.Status
        time == TimestampAsTime(blkResp.Timestamp)
    IN  IF id.err # Nil THEN [blk |-> NilBlock, err |-> id.err]
        ELSE IF parentID.err # Nil THEN [blk |-> NilBlock, err |-> parentID.err]
        ELSE IF StatusValid(status) # Nil
             THEN [blk |-> NilBlock, err |-> StatusValid(status)]
        ELSE IF time.err # Nil THEN [blk |-> NilBlock, err |-> time.err]
        ELSE [blk |-> blockClient(id.id, parentID.id, status,
                                  BatchBytes(blksBytes, idx), blkResp.Height,
                                  time.time),
              err |-> Nil]

\* the least element of a non-empty set of numbers
Least(S) == CHOOSE x \in S : \A y \in S : x <= y

\* VMClient.BatchedParseBlock; r.resp is the response's list of entries
BatchedParseBlock(blksBytes, r) ==
    IF r.err # Nil THEN [out |-> NilBlocks, err |-> r.err]
    ELSE IF Len(blksBytes) # Len(r.resp)
         THEN [out |-> NilBlocks, err |-> errBatchedParseBlockWrongNumberOfBlocks]
    ELSE LET e == [idx \in 1..Len(r.resp) |-> batchEntry(blksBytes, idx, r.resp[idx])]
             failed == {idx \in 1..Len(r.resp) : e[idx].err # Nil}
         IN  IF failed # {}
             THEN [out |-> NilBlocks, err |-> e[Least(failed)].err]
             ELSE [out |-> Blocks([idx \in 1..Len(r.resp) |-> e[idx].blk]),
                   err |-> Nil]

(***************************************************************************)
(* Height index and state sync.                                            *)
(***************************************************************************)
\* a VerifyHeightIndex that takes "not implemented" for success
VerifyHeightIndexLenient(r) ==
    IF r.err # Nil THEN r.err
    ELSE IF errCodeToError(r.resp.Err) = ErrHeightIndexedVMNotImplemented THEN Nil
    ELSE errCodeToError(r.resp.Err)
\* VMClient.VerifyHeightIndex; the response is [Err]
VerifyHeightIndex(r) ==
    IF r.err # Nil THEN r.err
    ELSE errCodeToError(r.resp.Err)

\* VMClient.GetBlockIDAtHeight; the response is [BlkId, Err]
GetBlockIDAtHeight(height, r) ==
    IF r.err # Nil THEN [out |-> EmptyID, err |-> r.err]
    ELSE IF r.resp.Err # 0 THEN [out |-> EmptyID, err |-> errCodeToError(r.resp.Err)]
    ELSE [out |-> ToID(r.resp.BlkId).id, err |-> ToID(r.resp.BlkId).err]

\* VMClient.StateSyncEnabled; the response is [Enabled, Err]
StateSyncEnabled(r) ==
    IF r.err # Nil THEN [out |-> FALSE, err |-> r.err]
    ELSE IF errCodeToError(r.resp.Err) = ErrStateSyncableVMNotImplemented
         THEN [out |-> FALSE, err |-> Nil]
    ELSE [out |-> r.resp.Enabled, err |-> errCodeToError(r.resp.Err)]

\* state-summary handles (summaryClient); a nil pointer is NilSummary
NilSummary == [nil |-> TRUE, id |-> EmptyID, height |-> 0, bytes |-> NilBytes]
summaryClient(id, height, bytes) ==
    [nil |-> FALSE, id |-> id, height |-> height, bytes |-> bytes]

\* what the plugin may answer to a call that yields one state summary
SummaryResponses ==
    [Id : WireIDs, Height : Heights, Bytes : Payloads, Err : ErrCodes]

\* VMClient.GetOngoingSyncStateSummary
GetOngoingSyncStateSummary(r) ==
    IF r.err # Nil THEN [out |-> NilSummary, err |-> r.err]
    ELSE IF r.resp.Err # 0 THEN [out |-> NilSummary, err |-> errCodeToError(r.resp.Err)]
    ELSE [out |-> summaryClient(ToID(r.resp.Id).id, r.resp.Height, r.resp.Bytes),
          err |-> ToID(r.resp.Id).err]

\* VMClient.GetLastStateSummary
GetLastStateSummary(r) ==
    IF r.err # Nil THEN [out |-> NilSummary, err |-> r.err]
    ELSE IF r.resp.Err # 0 THEN [out |-> NilSummary, err |-> errCodeToError(r.resp.Err)]
    ELSE [out |-> summaryClient(ToID(r.resp.Id).id, r.resp.Height, r.resp.Bytes),
          err |-> ToID(r.resp.Id).err]

\* VMClient.ParseStateSummary
ParseStateSummary(summaryBytes, r) ==
    IF r.err # Nil THEN [out |-> NilSummary, err |-> r.err]
    ELSE IF r.resp.Err # 0 THEN [out |-> NilSummary, err |-> errCodeToError(r.resp.Err)]
    ELSE [out |-> summaryClient(ToID(r.resp.Id).id, r.resp.Height, summaryBytes),
          err |-> ToID(r.resp.Id).err]

\* a GetStateSummary that takes the height of the handle from the response
GetStateSummaryEcho(summaryHeight, r) ==
    IF r.err # Nil THEN [out |-> NilSummary, err |-> r.err]
    ELSE IF r.resp.Err # 0 THEN [out |-> NilSummary, err |-> errCodeToError(r.resp.Err)]
    ELSE [out |-> summaryClient(ToID(r.resp.Id).id, r.resp.Height, r.resp.Bytes),
          err |-> ToID(r.resp.Id).err]

\* VMClient.GetStateSummary
GetStateSummary(summaryHeight, r) ==
    IF r.err # Nil THEN [out |-> NilSummary, err |-> r.err]
    ELSE IF r.resp.Err # 0 THEN [out |-> NilSummary, err |-> errCodeToError(r.resp.Err)]
    ELSE [out |-> summaryClient(ToID(r.resp.Id).id, summaryHeight, r.resp.Bytes),
          err |-> ToID(r.resp.Id).err]

(***************************************************************************)
(* The adapter's lifecycle: data.                                          *)
(***************************************************************************)
\* snow.Context: the identifiers Initialize sends to the plugin
NilCtx ==
    [nil |-> TRUE, NetworkID |-> 0, SubnetID |-> EmptyID, ChainID |-> EmptyID,
     NodeID |-> EmptyID, XChainID |-> EmptyID, AVAXAssetID |-> EmptyID]
Contexts ==
    {[nil |-> FALSE, NetworkID |-> 1, SubnetID |-> <<2, 1>>, ChainID |-> <<3, 1>>,
      NodeID |-> <<4, 1>>, XChainID |-> <<5, 1>>, AVAXAssetID |-> <<6, 1>>],
     [nil |-> FALSE, NetworkID |-> 2, SubnetID |-> <<2, 2>>, ChainID |-> <<3, 2>>,
      NodeID |-> <<4, 2>>, XChainID |-> <<5, 2>>, AVAXAssetID |-> <<6, 2>>]}

\* the pid of the plugin process (plugin.Client.ReattachConfig().Pid)
PluginPid == 41

GenesisBytes == <<7>>
UpgradeBytes == <<8>>
ConfigBytes == <<9>>

\* dbManager.GetDatabases() of a manager with n databases: distinct databases,
\* newest version first
GetDatabases(n) ==
    [k \in 1..n |->
        [Database |-> k, Version |-> [major |-> 1, minor |-> n - k, patch |-> 0]]]

\* version.Semantic.String: "v<major>.<minor>.<patch>"
VersionString(v) == <<"v", v.major, ".", v.minor, ".", v.patch>>

\* the seven proxy services Initialize constructs
ProxyServices ==
    {"messenger", "keystore", "sharedMemory", "bcLookup", "snLookup", "appSender",
     "validatorStateServer"}

\* chain.State: the caching wrapper, holding the last accepted block
NilState == [nil |-> TRUE, lastAccepted |-> NilBlock]

\* the VMClient NewClient returns
NewClient ==
    [ctx |-> NilCtx, proc |-> 0, pid |-> 0, proxies |-> {}, metrics |-> FALSE,
     closerClosed |-> FALSE, conns |-> <<>>, State |-> NilState]

\* errors of the node-local collaborators
errListen == Err("listen", 0)
errRegister == Err("metrics registration", 0)
errDial == Err("dial", 0)
errClose(conn) == Err("close", conn)

\* what the plugin may answer to Initialize and SetState: two well-formed
\* answers that differ in every field, and one malformed in each decoded field
LastAcceptedResponses ==
    {[LastAcceptedId |-> <<1, 1>>, LastAcceptedParentId |-> <<1, 2>>, Height |-> 1,
      Bytes |-> <<5>>, Timestamp |-> [seconds |-> 1, nanos |-> 0]],
     [LastAcceptedId |-> <<1, 2>>, LastAcceptedParentId |-> <<1, 1>>, Height |-> 7,
      Bytes |-> <<6>>, Timestamp |-> [seconds |-> 2, nanos |-> 0]],
     [LastAcceptedId |-> <<1>>, LastAcceptedParentId |-> <<1, 2>>, Height |-> 1,
      Bytes |-> <<5>>, Timestamp |-> [seconds |-> 1, nanos |-> 0]],
     [LastAcceptedId |-> <<1, 1>>, LastAcceptedParentId |-> <<1>>, Height |-> 1,
      Bytes |-> <<5>>, Timestamp |-> [seconds |-> 1, nanos |-> 0]],
     [LastAcceptedId |-> <<1, 1>>, LastAcceptedParentId |-> <<1, 2>>, Height |-> 1,
      Bytes |-> <<5>>, Timestamp |-> [seconds |-> 1, nanos |-> -1]]}
NilLastAccepted ==
    [LastAcceptedId |-> <<>>, LastAcceptedParentId |-> <<>>, Height |-> 0,
     Bytes |-> NilBytes, Timestamp |-> NilTimestamp]

\* the adapter's models run without an HTTP server
NoRouter == [lock |-> [w |-> "", r |-> {}], routes |-> {}]
NoEngine == [Lock |-> [w |-> "", r |-> {}], state |-> "NormalOp"]

Init ==
    /\ b = NilBlock
    /\ call = NoCall
    /\ pc = "idle"
    /\ frame = NoFrame
    /\ vm = NewClient
    /\ servers = <<>>
    /\ procs = {PluginPid}
    /\ tracked = {}
    /\ closed = {}
    /\ sent = <<>>
    /\ initCalled = FALSE
    /\ router = NoRouter
    /\ engine = NoEngine

\* a run observes one handle, from the call that constructs it
NoneBuilt == call.op = "none"

\* a method that tries the remote call again after a transport error
IssuedRetrying(req, r) == IF r.err # Nil THEN <<req, req>> ELSE <<req>>
\* the requests a method issues when its remote call has outcome r: the one
\* vm.client call of its body, whatever the outcome
Issued(req, r) == <<req>>

\* the engine builds a block: the handle returned becomes the one observed
BuildBlock ==
    /\ NoneBuilt
    /\ UNCHANGED lifeVars
    /\ \E r \in RPC({x \in BlockResponses : x.Err = 0 /\ x.Status = 0}) :
         LET res == buildBlock(r)
         IN  /\ b' = res.blk
             /\ call' = [op |-> "BuildBlock", in |-> <<>>,
                         rpcs |-> Issued([method |-> "BuildBlock"], r),
                         rpcErr |-> r.err,
                         resp |-> r.resp, out |-> res.blk, err |-> res.err]

\* the engine parses a block from bytes
ParseBlock ==
    /\ NoneBuilt
    /\ UNCHANGED lifeVars
    /\ \E bytes \in Payloads, r \in RPC({x \in BlockResponses : x.Err = 0}) :
         LET res == parseBlock(bytes, r)
         IN  /\ b' = res.blk
             /\ call' = [op |-> "ParseBlock", in |-> bytes,
                         rpcs |-> Issued([method |-> "ParseBlock", Bytes |-> bytes], r),
                         rpcErr |-> r.err,
                         resp |-> r.resp, out |-> res.blk, err |-> res.err]

\* the engine fetches a block by identifier
GetBlock ==
    /\ NoneBuilt
    /\ UNCHANGED lifeVars
    /\ \E blkID \in ValidIDs, r \in RPC(BlockResponses) :
         LET res == getBlock(blkID, r)
         IN  /\ b' = res.blk
             /\ call' = [op |-> "GetBlock", in |-> blkID,
                         rpcs |-> Issued([method |-> "GetBlock", Id |-> blkID], r),
                         rpcErr |-> r.err,
                         resp |-> r.resp, out |-> res.blk, err |-> res.err]

\* a blockClient.Accept that marks the handle rejected
AcceptStatusSwapped(blk) == Rejected
\* the status blockClient.Accept leaves on the handle
AcceptStatus(blk) == Accepted
\* the status blockClient.Reject leaves on the handle
RejectStatus(blk) == Rejected
\* an Accept that marks the handle only when the remote call succeeded
afterAcceptUnlessFailed(blk, r) ==
    IF r.err # Nil THEN blk ELSE [blk EXCEPT !.status = AcceptStatus(blk)]
\* the handle after Accept, whatever the outcome r of the remote call: the
\* status is assigned before the call and nothing of the response is stored
afterAccept(blk, r) == [blk EXCEPT !.status = AcceptStatus(blk)]
\* the handle after Reject, whatever the outcome r of the remote call
afterReject(blk, r) == [blk EXCEPT !.status = RejectStatus(blk)]

\* blockClient.Accept
BlockAccept ==
    /\ ~b.nil
    /\ UNCHANGED lifeVars
    /\ \E r \in RPC({NilResponse}) :
         /\ b' = afterAccept(b, r)
         /\ call' = [op |-> "BlockAccept", in |-> b,
                     rpcs |-> Issued([method |-> "BlockAccept", Id |-> b.id], r),
                     rpcErr |-> r.err,
                     resp |-> r.resp, out |-> NilBlock, err |-> r.err]

\* blockClient.Reject
BlockReject ==
    /\ ~b.nil
    /\ UNCHANGED lifeVars
    /\ \E r \in RPC({NilResponse}) :
         /\ b' = afterReject(b, r)
         /\ call' = [op |-> "BlockReject", in |-> b,
                     rpcs |-> Issued([method |-> "BlockReject", Id |-> b.id], r),
                     rpcErr |-> r.err,
                     resp |-> r.resp, out |-> NilBlock, err |-> r.err]

\* a Verify that also takes the payload of the response
afterVerifyWithBytes(blk, r) ==
    IF r.err # Nil THEN blk
    ELSE [blk EXCEPT !.time = TimestampAsTime(r.resp.Timestamp).time,
                     !.bytes = r.resp.Bytes]
\* the handle after Verify: b.time, err = TimestampAsTime(resp.Timestamp) when
\* the remote call returned, the handle as it was when it did not
afterVerify(blk, r) ==
    IF r.err # Nil THEN blk
    ELSE [blk EXCEPT !.time = TimestampAsTime(r.resp.Timestamp).time]

\* blockClient.Verify
BlockVerify ==
    /\ ~b.nil
    /\ UNCHANGED lifeVars
    /\ \E r \in RPC({[NilResponse EXCEPT !.Timestamp = ts] : ts \in WireTimestamps}) :
         LET time == TimestampAsTime(r.resp.Timestamp)
         IN  /\ b' = afterVerify(b, r)
             /\ call' = [op |-> "BlockVerify", in |-> b,
                         rpcs |-> Issued([method |-> "BlockVerify", Bytes |-> b.bytes], r),
                         rpcErr |-> r.err, resp |-> r.resp, out |-> NilBlock,
                         err |-> IF r.err # Nil THEN r.err ELSE time.err]

\* the engine reads the handle through its six accessors
BlockAccessors ==
    /\ ~b.nil
    /\ UNCHANGED lifeVars
    /\ UNCHANGED b
    /\ call' = [op |-> "BlockAccessors", in |-> b, rpcs |-> <<>>, rpcErr |-> Nil,
                resp |-> NilResponse,
                out |-> [nil |-> FALSE, id |-> ID(b), parentID |-> Parent(b),
                         status |-> Status(b), bytes |-> Bytes(b),
                         height |-> Height(b), time |-> Timestamp(b)],
                err |-> Nil]

\* the engine parses a list of blocks in one call
CallBatchedParseBlock ==
    /\ NoneBuilt
    /\ UNCHANGED lifeVars
    /\ \E blksBytes \in SeqUpTo(Payloads, MaxBatch),
          r \in RPC(SeqUpTo(BatchEntries, MaxBatch)) :
         LET res == BatchedParseBlock(blksBytes, r)
         IN  /\ call' = [op |-> "BatchedParseBlock", in |-> blksBytes,
                         rpcs |-> Issued([method |-> "BatchedParseBlock",
                                     Request |-> blksBytes], r),
                         rpcErr |-> r.err,
                         resp |-> IF r.err # Nil THEN <<>> ELSE r.resp,
                         out |-> res.out, err |-> res.err]
             /\ UNCHANGED b

\* the engine asks whether the height index is complete
CallVerifyHeightIndex ==
    /\ NoneBuilt
    /\ UNCHANGED lifeVars
    /\ \E r \in RPC([Err : ErrCodes]) :
         /\ call' = [op |-> "VerifyHeightIndex", in |-> <<>>,
                     rpcs |-> Issued([method |-> "VerifyHeightIndex"], r),
                     rpcErr |-> r.err, resp |-> r.resp,
                     out |-> NilBlock, err |-> VerifyHeightIndex(r)]
         /\ UNCHANGED b

\* the engine asks for the block identifier at a height
CallGetBlockIDAtHeight ==
    /\ NoneBuilt
    /\ UNCHANGED lifeVars
    /\ \E height \in Heights, r \in RPC([BlkId : WireIDs, Err : ErrCodes]) :
         LET res == GetBlockIDAtHeight(height, r)
         IN  /\ call' = [op |-> "GetBlockIDAtHeight", in |-> height,
                         rpcs |-> Issued([method |-> "GetBlockIDAtHeight",
                                     Height |-> height], r),
                         rpcErr |-> r.err, resp |-> r.resp,
                         out |-> res.out, err |-> res.err]
             /\ UNCHANGED b

\* the engine asks whether state sync is enabled
CallStateSyncEnabled ==
    /\ NoneBuilt
    /\ UNCHANGED lifeVars
    /\ \E r \in RPC([Enabled : BOOLEAN, Err : ErrCodes]) :
         LET res == StateSyncEnabled(r)
         IN  /\ call' = [op |-> "StateSyncEnabled", in |-> <<>>,
                         rpcs |-> Issued([method |-> "StateSyncEnabled"], r),
                         rpcErr |-> r.err, resp |-> r.resp,
                         out |-> res.out, err |-> res.err]
             /\ UNCHANGED b

\* the engine asks for the summary of the state sync in progress
CallGetOngoingSyncStateSummary ==
    /\ NoneBuilt
    /\ UNCHANGED lifeVars
    /\ \E r \in RPC(SummaryResponses) :
         LET res == GetOngoingSyncStateSummary(r)
         IN  /\ call' = [op |-> "GetOngoingSyncStateSummary", in |-> <<>>,
                         rpcs |-> Issued([method |-> "GetOngoingSyncStateSummary"], r),
                         rpcErr |-> r.err, resp |-> r.resp,
                         out |-> res.out, err |-> res.err]
             /\ UNCHANGED b

\* the engine asks for the last state summary
CallGetLastStateSummary ==
    /\ NoneBuilt
    /\ UNCHANGED lifeVars
    /\ \E r \in RPC(SummaryResponses) :
         LET res == GetLastStateSummary(r)
         IN  /\ call' = [op |-> "GetLastStateSummary", in |-> <<>>,
                         rpcs |-> Issued([method |-> "GetLastStateSummary"], r),
                         rpcErr |-> r.err, resp |-> r.resp,
                         out |-> res.out, err |-> res.err]
             /\ UNCHANGED b

\* the engine parses a state summary from bytes
CallParseStateSummary ==
    /\ NoneBuilt
    /\ UNCHANGED lifeVars
    /\ \E summaryBytes \in Payloads, r \in RPC(SummaryResponses) :
         LET res == ParseStateSummary(summaryBytes, r)
         IN  /\ call' = [op |-> "ParseStateSummary", in |-> summaryBytes,
                         rpcs |-> Issued([method |-> "ParseStateSummary",
                                     Bytes |-> summaryBytes], r),
                         rpcErr |-> r.err, resp |-> r.resp,
                         out |-> res.out, err |-> res.err]
             /\ UNCHANGED b

\* the engine asks for the state summary at a height
CallGetStateSummary ==
    /\ NoneBuilt
    /\ UNCHANGED lifeVars
    /\ \E summaryHeight \in Heights, r \in RPC(SummaryResponses) :
         LET res == GetStateSummary(summaryHeight, r)
         IN  /\ call' = [op |-> "GetStateSummary", in |-> summaryHeight,
                         rpcs |-> Issued([method |-> "GetStateSummary",
                                     Height |-> summaryHeight], r),
                         rpcErr |-> r.err, resp |-> r.resp,
                         out |-> res.out, err |-> res.err]
             /\ UNCHANGED b

\* summaryClient.Accept; the response is [Accepted, Err]
SummaryAccept(summary, r) ==
    IF r.err # Nil THEN [out |-> FALSE, err |-> r.err]
    ELSE [out |-> r.resp.Accepted, err |-> errCodeToError(r.resp.Err)]

\* the summary handles the four getters return without an error
Summaries ==
    {summaryClient(id, height, bytes) :
       id \in ValidIDs, height \in Heights, bytes \in Payloads}

\* the engine accepts a state summary it holds
CallSummaryAccept ==
    /\ NoneBuilt
    /\ UNCHANGED lifeVars
    /\ UNCHANGED b
    /\ \E summary \in Summaries, r \in RPC([Accepted : BOOLEAN, Err : ErrCodes]) :
         LET res == SummaryAccept(summary, r)
         IN  call' = [op |-> "StateSummaryAccept", in |-> summary,
                      rpcs |-> Issued([method |-> "StateSummaryAccept",
                                       Bytes |-> summary.bytes], r),
                      rpcErr |-> r.err, resp |-> r.resp,
                      out |-> res.out, err |-> res.err]

(***************************************************************************)
(* The methods that hand a request to the plugin and return its answer.    *)
(***************************************************************************)
\* a method whose body is `_, err := vm.client.<op>(ctx, req); return err`:
\* the record of its call when the remote call has outcome r
Notify(op, req, r) ==
    [op |-> op, in |-> req, rpcs |-> Issued(req, r), rpcErr |-> r.err,
     resp |-> r.resp, out |-> NilBlock, err |-> r.err]

\* request identifiers of application messages
RequestIDs == {1, 2}

\* VMClient.SetPreference
CallSetPreference ==
    /\ NoneBuilt
    /\ UNCHANGED lifeVars
    /\ UNCHANGED b
    /\ \E blkID \in ValidIDs, r \in RPC({NilResponse}) :
         call' = Notify("SetPreference",
                        [method |-> "SetPreference", Id |-> blkID], r)

\* VMClient.AppRequest
CallAppRequest ==
    /\ NoneBuilt
    /\ UNCHANGED lifeVars
    /\ UNCHANGED b
    /\ \E nodeID \in ValidIDs, requestID \in RequestIDs, request \in Payloads, r \in RPC({NilResponse}) :
         call' = Notify("AppRequest",
                        [method |-> "AppRequest", NodeId |-> nodeID,
                         RequestId |-> requestID, Request |-> request], r)

\* VMClient.AppResponse
CallAppResponse ==
    /\ NoneBuilt
    /\ UNCHANGED lifeVars
    /\ UNCHANGED b
    /\ \E nodeID \in ValidIDs, requestID \in RequestIDs, response \in Payloads, r \in RPC({NilResponse}) :
         call' = Notify("AppResponse",
                        [method |-> "AppResponse", NodeId |-> nodeID,
                         RequestId |-> requestID, Response |-> response], r)

\* VMClient.AppRequestFailed
CallAppRequestFailed ==
    /\ NoneBuilt
    /\ UNCHANGED lifeVars
    /\ UNCHANGED b
    /\ \E nodeID \in ValidIDs, requestID \in RequestIDs, r \in RPC({NilResponse}) :
         call' = Notify("AppRequestFailed",
                        [method |-> "AppRequestFailed", NodeId |-> nodeID,
                         RequestId |-> requestID], r)

\* VMClient.AppGossip
CallAppGossip ==
    /\ NoneBuilt
    /\ UNCHANGED lifeVars
    /\ UNCHANGED b
    /\ \E nodeID \in ValidIDs, msg \in Payloads, r \in RPC({NilResponse}) :
         call' = Notify("AppGossip",
                        [method |-> "AppGossip", NodeId |-> nodeID, Msg |-> msg], r)

\* VMClient.CrossChainAppRequest
CallCrossChainAppRequest ==
    /\ NoneBuilt
    /\ UNCHANGED lifeVars
    /\ UNCHANGED b
    /\ \E chainID \in ValidIDs, requestID \in RequestIDs, request \in Payloads, r \in RPC({NilResponse}) :
         call' = Notify("CrossChainAppRequest",
                        [method |-> "CrossChainAppRequest", ChainId |-> chainID,
                         RequestId |-> requestID, Request |-> request], r)

\* VMClient.CrossChainAppRequestFailed
CallCrossChainAppRequestFailed ==
    /\ NoneBuilt
    /\ UNCHANGED lifeVars
    /\ UNCHANGED b
    /\ \E chainID \in ValidIDs, requestID \in RequestIDs, r \in RPC({NilResponse}) :
         call' = Notify("CrossChainAppRequestFailed",
                        [method |-> "CrossChainAppRequestFailed", ChainId |-> chainID,
                         RequestId |-> requestID], r)

\* VMClient.CrossChainAppResponse
CallCrossChainAppResponse ==
    /\ NoneBuilt
    /\ UNCHANGED lifeVars
    /\ UNCHANGED b
    /\ \E chainID \in ValidIDs, requestID \in RequestIDs, response \in Payloads, r \in RPC({NilResponse}) :
         call' = Notify("CrossChainAppResponse",
                        [method |-> "CrossChainAppResponse", ChainId |-> chainID,
                         RequestId |-> requestID, Response |-> response], r)

\* a result that is nil, or holds the value the plugin returned
NilValue == [nil |-> TRUE, value |-> <<>>]
Value(v) == [nil |-> FALSE, value |-> v]

\* fmt.Errorf("health check failed: %w", err)
errHealthCheck(err) == Err("health check failed", 1)

\* VMClient.HealthCheck
HealthCheck(r) ==
    IF r.err # Nil THEN [out |-> NilValue, err |-> errHealthCheck(r.err)]
    ELSE [out |-> Value(r.resp.Details), err |-> Nil]

CallHealthCheck ==
    /\ NoneBuilt
    /\ UNCHANGED lifeVars
    /\ UNCHANGED b
    /\ \E r \in RPC([Details : Payloads]) :
         call' = [op |-> "HealthCheck", in |-> <<>>,
                  rpcs |-> Issued([method |-> "Health"], r), rpcErr |-> r.err,
                  resp |-> r.resp, out |-> HealthCheck(r).out,
                  err |-> HealthCheck(r).err]

\* VMClient.Version
Version(r) ==
    IF r.err # Nil THEN [out |-> Value(""), err |-> r.err]
    ELSE [out |-> Value(r.resp.Version), err |-> Nil]

CallVersion ==
    /\ NoneBuilt
    /\ UNCHANGED lifeVars
    /\ UNCHANGED b
    /\ \E r \in RPC([Version : {"v1.0.0", "v1.9.4"}]) :
         call' = [op |-> "Version", in |-> <<>>,
                  rpcs |-> Issued([method |-> "Version"], r), rpcErr |-> r.err,
                  resp |-> r.resp, out |-> Version(r).out, err |-> Version(r).err]

\* VMClient.GetAncestors
GetAncestors(r) ==
    IF r.err # Nil THEN [out |-> NilValue, err |-> r.err]
    ELSE [out |-> Value(r.resp.BlksBytes), err |-> Nil]

CallGetAncestors ==
    /\ NoneBuilt
    /\ UNCHANGED lifeVars
    /\ UNCHANGED b
    /\ \E blkID \in ValidIDs, maxBlocksNum \in 0..MaxBatch,
          r \in RPC([BlksBytes : SeqUpTo(Payloads, MaxBatch)]) :
         call' = [op |-> "GetAncestors", in |-> <<blkID, maxBlocksNum>>,
                  rpcs |-> Issued([method |-> "GetAncestors", BlkId |-> blkID,
                                   MaxBlocksNum |-> maxBlocksNum], r),
                  rpcErr |-> r.err, resp |-> r.resp,
                  out |-> GetAncestors(r).out, err |-> GetAncestors(r).err]

(***************************************************************************)
(* SetState.                                                               *)
(***************************************************************************)
\* snow.State: the phases the engine announces
States == {"StateSyncing", "Bootstrapping", "NormalOp"}

\* a method called through the nil *chain.State of an adapter that was never
\* initialized
errNilState == Err("nil pointer dereference", 0)

\* chain.State.SetLastAcceptedBlock
SetLastAcceptedBlock(State, blk) ==
    IF State.nil THEN [State |-> State, err |-> errNilState]
    ELSE [State |-> [State EXCEPT !.lastAccepted = blk], err |-> Nil]

\* a SetState that installs the block before it checks the timestamp
SetStateInstallingFirst(State, r) ==
    IF r.err # Nil THEN [State |-> State, err |-> r.err]
    ELSE LET id == ToID(r.resp.LastAcceptedId)
             parentID == ToID(r.resp.LastAcceptedParentId)
             time == TimestampAsTime(r.resp.Timestamp)
             set == SetLastAcceptedBlock(
                        State,
                        blockClient(id.id, parentID.id, Accepted, r.resp.Bytes,
                                    r.resp.Height, time.time))
         IN  IF id.err # Nil THEN [State |-> State, err |-> id.err]
             ELSE IF parentID.err # Nil THEN [State |-> State, err |-> parentID.err]
             ELSE IF time.err # Nil THEN [State |-> set.State, err |-> time.err]
             ELSE set

\* VMClient.SetState: the wrapper and the error it leaves
SetState(State, r) ==
    IF r.err # Nil THEN [State |-> State, err |-> r.err]
    ELSE LET id == ToID(r.resp.LastAcceptedId)
             parentID == ToID(r.resp.LastAcceptedParentId)
             time == TimestampAsTime(r.resp.Timestamp)
         IN  IF id.err # Nil THEN [State |-> State, err |-> id.err]
             ELSE IF parentID.err # Nil THEN [State |-> State, err |-> parentID.err]
             ELSE IF time.err # Nil THEN [State |-> State, err |-> time.err]
             ELSE SetLastAcceptedBlock(
                      State,
                      blockClient(id.id, parentID.id, Accepted, r.resp.Bytes,
                                  r.resp.Height, time.time))

\* the engine announces a phase; no block handle is under observation
CallSetState ==
    /\ pc = "idle"
    /\ b.nil
    /\ \E state \in States,
          r \in {[err |-> ErrTransport, resp |-> NilLastAccepted]}
                  \cup {[err |-> Nil, resp |-> x] : x \in LastAcceptedResponses} :
         LET res == SetState(vm.State, r)
         IN  /\ vm' = [vm EXCEPT !.State = res.State]
             /\ call' = [op |-> "SetState", in |-> state,
                         rpcs |-> Issued([method |-> "SetState", State |-> state], r),
                         rpcErr |-> r.err, resp |-> r.resp, out |-> NilBlock,
                         err |-> res.err]
    /\ UNCHANGED <<httpVars, b, pc, frame, servers, procs, tracked, closed, sent, initCalled>>

NextSteady ==
    \/ BuildBlock
    \/ ParseBlock
    \/ GetBlock
    \/ BlockAccept
    \/ BlockReject
    \/ BlockVerify
    \/ BlockAccessors
    \/ CallBatchedParseBlock
    \/ CallVerifyHeightIndex
    \/ CallGetBlockIDAtHeight
    \/ CallStateSyncEnabled
    \/ CallGetOngoingSyncStateSummary
    \/ CallGetLastStateSummary
    \/ CallParseStateSummary
    \/ CallGetStateSummary
    \/ CallSummaryAccept
    \/ CallSetPreference
    \/ CallAppRequest
    \/ CallAppResponse
    \/ CallAppRequestFailed
    \/ CallAppGossip
    \/ CallCrossChainAppRequest
    \/ CallCrossChainAppRequestFailed
    \/ CallCrossChainAppResponse
    \/ CallHealthCheck
    \/ CallVersion
    \/ CallGetAncestors
    \/ CallSetState

SpecSteady == Init /\ [][NextSteady]_vars

(***************************************************************************)
(* The adapter's lifecycle: SetProcess, Initialize, CreateHandlers,        *)
(* CreateStaticHandlers and Shutdown.  Initialize and Shutdown are taken   *)
(* step by step; the engine thread runs one lifecycle call at a time.      *)
(***************************************************************************)
\* the record of a lifecycle call that has returned
Returned(op, in, rpcs, rpcErr, resp, out, err) ==
    [op |-> op, in |-> in, rpcs |-> rpcs, rpcErr |-> rpcErr, resp |-> resp,
     out |-> out, err |-> err]

\* VMClient.SetProcess: the factory hands the plugin process to the adapter
SetProcess ==
    /\ pc = "idle"
    /\ vm.proc = 0
    /\ \E ctx \in Contexts :
         /\ vm' = [vm EXCEPT !.ctx = ctx, !.proc = PluginPid, !.pid = PluginPid]
         /\ tracked' = tracked \cup {PluginPid}
         /\ call' = Returned("SetProcess", ctx, <<>>, Nil, NilLastAccepted,
                             NilBlock, Nil)
    /\ UNCHANGED <<httpVars, b, pc, frame, servers, procs, closed, sent, initCalled>>

\* grpcutils.NewListener: a listener on a local address no other listener has
NewListenerAddr(srvs) == Len(srvs) + 1

\* a feature-extension check that lets a single extension through
UnsupportedFXsOffByOne(fxs) == fxs > 1
\* Initialize's check of the feature-extension list (fxs is its length)
UnsupportedFXs(fxs) == fxs # 0

\* a database server that serves the manager's current database
ServeDBCurrent(serverAddr, semDB, versionedDBs) ==
    [addr |-> serverAddr, service |-> "db",
     db |-> versionedDBs[1].Database, stopped |-> FALSE]
\* the server Initialize launches for one versioned database:
\* go grpcutils.Serve(serverListener, vm.getDBServerFunc(rpcdb.NewServer(semDB.Database)))
ServeDB(serverAddr, semDB, versionedDBs) ==
    [addr |-> serverAddr, service |-> "db", db |-> semDB.Database,
     stopped |-> FALSE]

\* the server of the proxy services: go grpcutils.Serve(serverListener, vm.getInitServer)
ServeVM(serverAddr) ==
    [addr |-> serverAddr, service |-> "vm", db |-> 0, stopped |-> FALSE]

\* &vmpb.VersionedDBServer{ServerAddr, Version}
VersionedDBServer(serverAddr, semDB) ==
    [ServerAddr |-> serverAddr, Version |-> VersionString(semDB.Version)]

\* the request of the remote Initialize call
InitializeRequest(chainCtx, versionedDBServers, serverAddr) ==
    [method |-> "Initialize",
     NetworkId |-> chainCtx.NetworkID,
     SubnetId |-> chainCtx.SubnetID,
     ChainId |-> chainCtx.ChainID,
     NodeId |-> chainCtx.NodeID,
     XChainId |-> chainCtx.XChainID,
     AvaxAssetId |-> chainCtx.AVAXAssetID,
     GenesisBytes |-> GenesisBytes,
     UpgradeBytes |-> UpgradeBytes,
     ConfigBytes |-> ConfigBytes,
     DbServers |-> versionedDBServers,
     ServerAddr |-> serverAddr]

\* a last accepted block left Processing
lastAcceptedBlkProcessing(id, parentID, resp, time) ==
    blockClient(id, parentID, Processing, resp.Bytes, resp.Height, time)
\* the last accepted block Initialize and SetState build from a response
lastAcceptedBlk(id, parentID, resp, time) ==
    blockClient(id, parentID, Accepted, resp.Bytes, resp.Height, time)

\* an Initialize that goes on to decode after the remote call, failed or not
AfterInitializeCallIgnoringErr(err) == "init_decode"
\* where Initialize goes after the remote call returned err
AfterInitializeCall(err) == IF err # Nil THEN "idle" ELSE "init_decode"

\* the arguments of the Initialize under way
InitArgs == [chainCtx |-> frame.chainCtx, versionedDBs |-> frame.versionedDBs,
             fxs |-> frame.fxs]

\* Initialize returns err
InitializeReturns(rpcs, rpcErr, resp, err) ==
    /\ pc' = "idle"
    /\ frame' = NoFrame
    /\ call' = Returned("Initialize", InitArgs, rpcs, rpcErr, resp, NilBlock, err)

\* VMClient.Initialize, from its entry to the assignment of vm.ctx.  The chain
\* manager initializes an adapter once; a call the feature-extension check
\* turns away may come at any time.
Initialize ==
    /\ pc = "idle"
    /\ vm.proc # 0
    /\ \E chainCtx \in Contexts, n \in 1..MaxDBs, fxs \in 0..1 :
         IF UnsupportedFXs(fxs)
         THEN /\ call' = Returned("Initialize",
                                  [chainCtx |-> chainCtx,
                                   versionedDBs |-> GetDatabases(n), fxs |-> fxs],
                                  <<>>, Nil, NilLastAccepted, NilBlock,
                                  errUnsupportedFXs)
              /\ UNCHANGED <<pc, frame, vm, initCalled>>
         ELSE /\ ~initCalled
              /\ initCalled' = TRUE
              /\ vm' = [vm EXCEPT !.ctx = chainCtx]
              /\ frame' = [op |-> "Initialize", chainCtx |-> chainCtx,
                           versionedDBs |-> GetDatabases(n), fxs |-> fxs,
                           vm0 |-> vm, base |-> Len(servers), i |-> 1,
                           versionedDBServers |-> <<>>, serverAddr |-> 0,
                           rpcs |-> <<>>, err |-> Nil, resp |-> NilLastAccepted,
                           lastAcceptedBlk |-> NilBlock]
              /\ pc' = "init_metrics"
              /\ UNCHANGED call
    /\ UNCHANGED <<httpVars, b, servers, procs, tracked, closed, sent>>

\* Initialize: the metrics registry and its registrations
InitRegisterMetrics ==
    /\ pc = "init_metrics"
    /\ vm' = [vm EXCEPT !.metrics = TRUE]
    /\ \E err \in {Nil, errRegister} :
         IF err # Nil
         THEN InitializeReturns(<<>>, Nil, NilLastAccepted, err)
         ELSE pc' = "init_db" /\ UNCHANGED <<call, frame>>
    /\ UNCHANGED <<httpVars, b, servers, procs, tracked, closed, sent, initCalled>>

\* Initialize: one iteration of the loop that serves the versioned databases
InitServeDB ==
    /\ pc = "init_db"
    /\ frame.i <= Len(frame.versionedDBs)
    /\ \E err \in {Nil, errListen} :
         IF err # Nil
         THEN /\ InitializeReturns(<<>>, Nil, NilLastAccepted, err)
              /\ UNCHANGED servers
         ELSE LET serverAddr == NewListenerAddr(servers)
                  semDB == frame.versionedDBs[frame.i]
              IN  /\ servers' = Append(servers,
                                       ServeDB(serverAddr, semDB, frame.versionedDBs))
                  /\ frame' = [frame EXCEPT
                                 !.i = @ + 1,
                                 !.versionedDBServers =
                                     Append(@, VersionedDBServer(serverAddr, semDB))]
                  /\ UNCHANGED <<call, pc>>
    /\ UNCHANGED <<httpVars, b, vm, procs, tracked, closed, sent, initCalled>>

\* Initialize: the seven proxy services
InitProxies ==
    /\ pc = "init_db"
    /\ frame.i > Len(frame.versionedDBs)
    /\ vm' = [vm EXCEPT !.proxies = ProxyServices]
    /\ pc' = "init_listen"
    /\ UNCHANGED <<httpVars, b, call, frame, servers, procs, tracked, closed, sent, initCalled>>

\* Initialize: the listener and the server of the proxy services
InitServeVM ==
    /\ pc = "init_listen"
    /\ \E err \in {Nil, errListen} :
         IF err # Nil
         THEN /\ InitializeReturns(<<>>, Nil, NilLastAccepted, err)
              /\ UNCHANGED servers
         ELSE LET serverAddr == NewListenerAddr(servers)
              IN  /\ servers' = Append(servers, ServeVM(serverAddr))
                  /\ frame' = [frame EXCEPT !.serverAddr = serverAddr]
                  /\ pc' = "init_call"
                  /\ UNCHANGED call
    /\ UNCHANGED <<httpVars, b, vm, procs, tracked, closed, sent, initCalled>>

\* Initialize: the remote Initialize call
InitCall ==
    /\ pc = "init_call"
    /\ LET req == InitializeRequest(frame.chainCtx, frame.versionedDBServers,
                                    frame.serverAddr)
       IN  /\ sent' = Append(sent, req)
           /\ \E r \in {[err |-> ErrTransport, resp |-> NilLastAccepted]}
                  \cup {[err |-> Nil, resp |-> x] : x \in LastAcceptedResponses} :
                IF AfterInitializeCall(r.err) = "idle"
                THEN InitializeReturns(<<req>>, r.err, r.resp, r.err)
                ELSE /\ frame' = [frame EXCEPT !.rpcs = <<req>>, !.err = r.err,
                                               !.resp = r.resp]
                     /\ pc' = AfterInitializeCall(r.err)
                     /\ UNCHANGED call
    /\ UNCHANGED <<httpVars, b, vm, servers, procs, tracked, closed, initCalled>>

\* Initialize: decoding the response into the last accepted block
InitDecode ==
    /\ pc = "init_decode"
    /\ LET id == ToID(frame.resp.LastAcceptedId)
           parentID == ToID(frame.resp.LastAcceptedParentId)
           time == TimestampAsTime(frame.resp.Timestamp)
       IN  IF id.err # Nil
           THEN InitializeReturns(frame.rpcs, Nil, frame.resp, id.err)
           ELSE IF parentID.err # Nil
           THEN InitializeReturns(frame.rpcs, Nil, frame.resp, parentID.err)
           ELSE IF time.err # Nil
           THEN InitializeReturns(frame.rpcs, Nil, frame.resp, time.err)
           ELSE /\ frame' = [frame EXCEPT !.lastAcceptedBlk =
                               lastAcceptedBlk(id.id, parentID.id, frame.resp, time.time)]
                /\ pc' = "init_state"
                /\ UNCHANGED call
    /\ UNCHANGED <<httpVars, b, vm, servers, procs, tracked, closed, sent, initCalled>>

\* Initialize: chain.NewMeteredState and the assignment of vm.State
InitState ==
    /\ pc = "init_state"
    /\ \E err \in {Nil, errRegister} :
         IF err # Nil
         THEN /\ InitializeReturns(frame.rpcs, Nil, frame.resp, err)
              /\ UNCHANGED vm
         ELSE /\ vm' = [vm EXCEPT !.State = [nil |-> FALSE,
                                             lastAccepted |-> frame.lastAcceptedBlk]]
              /\ pc' = "init_register"
              /\ UNCHANGED <<call, frame>>
    /\ UNCHANGED <<httpVars, b, servers, procs, tracked, closed, sent, initCalled>>

\* Initialize: return vm.ctx.Metrics.Register(multiGatherer)
InitRegister ==
    /\ pc = "init_register"
    /\ \E err \in {Nil, errRegister} :
         InitializeReturns(frame.rpcs, Nil, frame.resp, err)
    /\ UNCHANGED <<httpVars, b, vm, servers, procs, tracked, closed, sent, initCalled>>

(***************************************************************************)
(* CreateHandlers and CreateStaticHandlers.                                *)
(***************************************************************************)
\* common.LockOption
WriteLock == 0
ReadLock == 1
NoLock == 2

\* the (prefix, address, lock option) triples a plugin may return
HandlerTriples ==
    {[Prefix |-> "", ServerAddr |-> 71, LockOptions |-> WriteLock],
     [Prefix |-> "/rpc", ServerAddr |-> 72, LockOptions |-> ReadLock]}

\* a map[string]*common.HTTPHandler result: nil, or handlers by prefix
NilHandlers == [nil |-> TRUE, handlers |-> <<>>]

\* a CreateHandlers that forgets the connections it opened when a Dial fails
createHandlersForgetting(conns, r, failAt) ==
    IF r.err # Nil THEN [conns |-> conns, out |-> NilHandlers, err |-> r.err]
    ELSE IF failAt # 0 THEN [conns |-> conns, out |-> NilHandlers, err |-> errDial]
    ELSE LET n == Len(r.resp)
             newConns == [i \in 1..n |->
                             [id |-> Len(conns) + i, addr |-> r.resp[i].ServerAddr]]
             last(p) == CHOOSE i \in 1..n :
                            /\ r.resp[i].Prefix = p
                            /\ \A k \in (i + 1)..n : r.resp[k].Prefix # p
         IN  [conns |-> conns \o newConns,
              out |-> [nil |-> FALSE,
                       handlers |->
                         [p \in {r.resp[i].Prefix : i \in 1..n} |->
                            [LockOptions |-> r.resp[last(p)].LockOptions,
                             conn |-> Len(conns) + last(p)]]],
              err |-> Nil]

\* the body of CreateHandlers and of CreateStaticHandlers: r is the outcome of
\* the remote call, failAt the index of the first handler whose Dial fails
\* (0: none does); a connection is named by its position in vm.conns
createHandlers(conns, r, failAt) ==
    IF r.err # Nil THEN [conns |-> conns, out |-> NilHandlers, err |-> r.err]
    ELSE LET n == Len(r.resp)
             dialed == IF failAt = 0 THEN n ELSE failAt - 1
             newConns == [i \in 1..dialed |->
                             [id |-> Len(conns) + i, addr |-> r.resp[i].ServerAddr]]
             last(p) == CHOOSE i \in 1..n :
                            /\ r.resp[i].Prefix = p
                            /\ \A j \in (i + 1)..n : r.resp[j].Prefix # p
         IN  IF failAt # 0
             THEN [conns |-> conns \o newConns, out |-> NilHandlers, err |-> errDial]
             ELSE [conns |-> conns \o newConns,
                   out |-> [nil |-> FALSE,
                            handlers |->
                              [p \in {r.resp[i].Prefix : i \in 1..n} |->
                                 [LockOptions |-> r.resp[last(p)].LockOptions,
                                  conn |-> Len(conns) + last(p)]]],
                   err |-> Nil]

\* the outcomes of a CreateHandlers remote call that keep vm.conns in its bound
HandlerOutcomes ==
    {[err |-> ErrTransport, resp |-> <<>>]}
        \cup {[err |-> Nil, resp |-> x] :
                x \in SeqUpTo(HandlerTriples, MaxConns - Len(vm.conns))}

\* VMClient.CreateHandlers
CreateHandlers ==
    /\ pc = "idle"
    /\ vm.proc # 0
    /\ \E r \in HandlerOutcomes :
         \E failAt \in 0..Len(r.resp) :
           LET res == createHandlers(vm.conns, r, failAt)
           IN  /\ vm' = [vm EXCEPT !.conns = res.conns]
               /\ call' = Returned("CreateHandlers", failAt,
                                   <<[method |-> "CreateHandlers"]>>, r.err,
                                   r.resp, res.out, res.err)
    /\ UNCHANGED <<httpVars, b, pc, frame, servers, procs, tracked, closed, sent, initCalled>>

\* VMClient.CreateStaticHandlers
CreateStaticHandlers ==
    /\ pc = "idle"
    /\ vm.proc # 0
    /\ \E r \in HandlerOutcomes :
         \E failAt \in 0..Len(r.resp) :
           LET res == createHandlers(vm.conns, r, failAt)
           IN  /\ vm' = [vm EXCEPT !.conns = res.conns]
               /\ call' = Returned("CreateStaticHandlers", failAt,
                                   <<[method |-> "CreateStaticHandlers"]>>, r.err,
                                   r.resp, res.out, res.err)
    /\ UNCHANGED <<httpVars, b, pc, frame, servers, procs, tracked, closed, sent, initCalled>>

(***************************************************************************)
(* Shutdown.                                                               *)
(***************************************************************************)
\* wrappers.Errs.Add: the first non-nil error is kept
ErrsAdd(errs, err) == IF errs = Nil THEN err ELSE errs

\* a Shutdown that returns as soon as the remote call fails
AfterShutdownCallEarlyReturn(err) == IF err # Nil THEN "sd_return" ELSE "sd_stop"
\* a Shutdown that kills the process right after the remote call
AfterShutdownCallKillFirst(err) == "sd_kill"
\* where Shutdown goes after the remote Shutdown call returned err
AfterShutdownCall(err) == "sd_stop"

\* Shutdown: the remote Shutdown call
ShutdownCall ==
    /\ pc = "idle"
    /\ vm.proc # 0
    /\ sent' = Append(sent, [method |-> "Shutdown"])
    /\ \E err \in {Nil, ErrTransport} :
         /\ frame' = [op |-> "Shutdown", errs |-> ErrsAdd(Nil, err), i |-> 1,
                      outcomes |-> <<err>>, steps |-> <<"request">>]
         /\ pc' = AfterShutdownCall(err)
    /\ UNCHANGED <<httpVars, b, call, vm, servers, procs, tracked, closed, initCalled>>

\* Shutdown: vm.serverCloser.Stop()
ShutdownStop ==
    /\ pc = "sd_stop"
    /\ servers' = [k \in 1..Len(servers) |-> [servers[k] EXCEPT !.stopped = TRUE]]
    /\ vm' = [vm EXCEPT !.closerClosed = TRUE]
    /\ frame' = [frame EXCEPT !.steps = Append(@, "stop")]
    /\ pc' = "sd_close"
    /\ UNCHANGED <<httpVars, b, call, procs, tracked, closed, sent, initCalled>>

\* Shutdown: one iteration of the loop that closes the connections
ShutdownClose ==
    /\ pc = "sd_close"
    /\ frame.i <= Len(vm.conns)
    /\ LET conn == vm.conns[frame.i].id
       IN  /\ closed' = closed \cup {conn}
           /\ \E err \in {Nil, errClose(conn)} :
                frame' = [frame EXCEPT !.errs = ErrsAdd(@, err), !.i = @ + 1,
                                       !.outcomes = Append(@, err),
                                       !.steps = Append(@, "close")]
    /\ UNCHANGED <<httpVars, b, call, pc, vm, servers, procs, tracked, sent, initCalled>>

\* Shutdown: the loop is over
ShutdownClosed ==
    /\ pc = "sd_close"
    /\ frame.i > Len(vm.conns)
    /\ pc' = "sd_kill"
    /\ UNCHANGED <<httpVars, b, call, frame, vm, servers, procs, tracked, closed, sent, initCalled>>

\* Shutdown: vm.proc.Kill()
ShutdownKill ==
    /\ pc = "sd_kill"
    /\ procs' = procs \ {vm.proc}
    /\ frame' = [frame EXCEPT !.steps = Append(@, "kill")]
    /\ pc' = "sd_untrack"
    /\ UNCHANGED <<httpVars, b, call, vm, servers, tracked, closed, sent, initCalled>>

\* Shutdown: vm.processTracker.UntrackProcess(vm.pid)
ShutdownUntrack ==
    /\ pc = "sd_untrack"
    /\ tracked' = tracked \ {vm.pid}
    /\ frame' = [frame EXCEPT !.steps = Append(@, "untrack")]
    /\ pc' = "sd_return"
    /\ UNCHANGED <<httpVars, b, call, vm, servers, procs, closed, sent, initCalled>>

\* Shutdown: return errs.Err
ShutdownReturn ==
    /\ pc = "sd_return"
    /\ call' = Returned("Shutdown", frame.steps, <<[method |-> "Shutdown"]>>,
                        frame.outcomes[1], frame.outcomes, NilBlock, frame.errs)
    /\ pc' = "done"
    /\ frame' = NoFrame
    /\ UNCHANGED <<httpVars, b, vm, servers, procs, tracked, closed, sent, initCalled>>

Next ==
    \/ SetProcess
    \/ Initialize
    \/ InitRegisterMetrics
    \/ InitServeDB
    \/ InitProxies
    \/ InitServeVM
    \/ InitCall
    \/ InitDecode
    \/ InitState
    \/ InitRegister
    \/ CreateHandlers
    \/ CreateStaticHandlers
    \/ CallSetState
    \/ ShutdownCall
    \/ ShutdownStop
    \/ ShutdownClose
    \/ ShutdownClosed
    \/ ShutdownKill
    \/ ShutdownUntrack
    \/ ShutdownReturn

Spec == Init /\ [][Next]_vars

\* the steps of an Initialize under way: the statements of one goroutine, each
\* of which returns
InitializeSteps ==
    \/ InitRegisterMetrics
    \/ InitServeDB
    \/ InitProxies
    \/ InitServeVM
    \/ InitCall
    \/ InitDecode
    \/ InitState
    \/ InitRegister

\* the steps of a Shutdown under way, after its remote call
ShutdownSteps ==
    \/ ShutdownStop
    \/ ShutdownClose
    \/ ShutdownClosed
    \/ ShutdownKill
    \/ ShutdownUntrack
    \/ ShutdownReturn

\* the calls that acquire, use and release what Shutdown tears down
NextLive ==
    \/ SetProcess
    \/ Initialize
    \/ InitializeSteps
    \/ CreateHandlers
    \/ ShutdownCall
    \/ ShutdownSteps

\* the lifecycle with progress: a method that was called runs to its return.
\* Nothing obliges the owner of the adapter to call a method.
SpecLive ==
    /\ Init
    /\ [][NextLive]_vars
    /\ WF_<<pc, frame>>(InitializeSteps)
    /\ WF_<<pc, frame>>(ShutdownSteps)

(***************************************************************************)
(* CreateHandlers, CreateStaticHandlers and Shutdown called from several   *)
(* threads.  Here pc and frame hold one entry per thread.  The statement   *)
(* vm.conns = append(vm.conns, clientConn) takes no lock: it is a load of  *)
(* the slice followed by a store of the extended slice, and the loads and  *)
(* stores of concurrent calls interleave in any order.                     *)
(***************************************************************************)
\* the threads that create handlers, and the thread that shuts down
HandlerThreads == {"h1", "h2"}
ShutdownThread == "sd"
AllThreads == HandlerThreads \cup {ShutdownThread}

\* the two calls that open connections
HandlerMethods == {"CreateHandlers", "CreateStaticHandlers"}

\* the connection thread t dials for the k-th handler of its response
ClientConn(t, k, handler) == [id |-> <<t, k>>, addr |-> handler.ServerAddr]

\* the adapter once SetProcess has run, before any call
InitConcurrent ==
    /\ b = NilBlock
    /\ call = NoCall
    /\ pc = [t \in AllThreads |-> "idle"]
    /\ frame = [t \in AllThreads |-> NoFrame]
    /\ \E ctx \in Contexts :
         vm = [NewClient EXCEPT !.ctx = ctx, !.proc = PluginPid, !.pid = PluginPid]
    /\ servers = <<>>
    /\ procs = {PluginPid}
    /\ tracked = {PluginPid}
    /\ closed = {}
    /\ sent = <<>>
    /\ initCalled = FALSE
    /\ router = NoRouter
    /\ engine = NoEngine

\* the connections whose append to vm.conns thread t has completed
Appended(t) == IF frame[t].op \in HandlerMethods THEN frame[t].appended ELSE {}

\* CreateHandlers / CreateStaticHandlers: the remote call
ConcCreateHandlersCall ==
    \E t \in HandlerThreads, op \in HandlerMethods :
      /\ pc[t] = "idle"
      /\ \E r \in {[err |-> ErrTransport, resp |-> <<>>]}
                    \cup {[err |-> Nil, resp |-> x] :
                            x \in {<<>>} \cup {<<h>> : h \in HandlerTriples}} :
           /\ frame' = [frame EXCEPT ![t] =
                          [op |-> op, resp |-> r.resp, k |-> 1, conns |-> <<>>,
                           clientConn |-> <<>>, appended |-> {}, err |-> r.err]]
           /\ pc' = [pc EXCEPT ![t] = IF r.err # Nil THEN "returned" ELSE "ch_dial"]
      /\ UNCHANGED <<httpVars, b, call, vm, servers, procs, tracked, closed, sent, initCalled>>

\* the loop: grpcutils.Dial for the next handler, or the end of the loop
ConcCreateHandlersDial ==
    \E t \in HandlerThreads :
      /\ pc[t] = "ch_dial"
      /\ IF frame[t].k > Len(frame[t].resp)
         THEN /\ pc' = [pc EXCEPT ![t] = "returned"]
              /\ UNCHANGED frame
         ELSE \E err \in {Nil, errDial} :
                IF err # Nil
                THEN /\ frame' = [frame EXCEPT ![t].err = err]
                     /\ pc' = [pc EXCEPT ![t] = "returned"]
                ELSE /\ frame' = [frame EXCEPT ![t].clientConn =
                                    ClientConn(t, frame[t].k, frame[t].resp[frame[t].k])]
                     /\ pc' = [pc EXCEPT ![t] = "ch_load"]
      /\ UNCHANGED <<httpVars, b, call, vm, servers, procs, tracked, closed, sent, initCalled>>

\* append(vm.conns, clientConn): the load of vm.conns
ConcCreateHandlersLoad ==
    \E t \in HandlerThreads :
      /\ pc[t] = "ch_load"
      /\ frame' = [frame EXCEPT ![t].conns = vm.conns]
      /\ pc' = [pc EXCEPT ![t] = "ch_store"]
      /\ UNCHANGED <<httpVars, b, call, vm, servers, procs, tracked, closed, sent, initCalled>>

\* vm.conns = append(...): the store of the extended slice
ConcCreateHandlersStore ==
    \E t \in HandlerThreads :
      /\ pc[t] = "ch_store"
      /\ vm' = [vm EXCEPT !.conns = Append(frame[t].conns, frame[t].clientConn)]
      /\ frame' = [frame EXCEPT ![t].appended = @ \cup {frame[t].clientConn.id},
                                ![t].k = @ + 1]
      /\ pc' = [pc EXCEPT ![t] = "ch_dial"]
      /\ UNCHANGED <<httpVars, b, call, servers, procs, tracked, closed, sent, initCalled>>

\* Shutdown: the remote call and vm.serverCloser.Stop()
ConcShutdownCall ==
    /\ pc[ShutdownThread] = "idle"
    /\ sent' = Append(sent, [method |-> "Shutdown"])
    /\ vm' = [vm EXCEPT !.closerClosed = TRUE]
    /\ pc' = [pc EXCEPT ![ShutdownThread] = "sd_range"]
    /\ UNCHANGED <<httpVars, b, call, frame, servers, procs, tracked, closed, initCalled>>

\* Shutdown: range vm.conns reads the slice once; `before` remembers which
\* connections had been appended by then
ConcShutdownRange ==
    /\ pc[ShutdownThread] = "sd_range"
    /\ frame' = [frame EXCEPT ![ShutdownThread] =
                   [op |-> "Shutdown", conns |-> vm.conns, i |-> 1,
                    before |-> UNION {Appended(t) : t \in HandlerThreads}]]
    /\ pc' = [pc EXCEPT ![ShutdownThread] = "sd_close"]
    /\ UNCHANGED <<httpVars, b, call, vm, servers, procs, tracked, closed, sent, initCalled>>

\* Shutdown: conn.Close() for the next connection of the slice read
ConcShutdownClose ==
    /\ pc[ShutdownThread] = "sd_close"
    /\ frame[ShutdownThread].i <= Len(frame[ShutdownThread].conns)
    /\ closed' = closed \cup {frame[ShutdownThread].conns[frame[ShutdownThread].i].id}
    /\ frame' = [frame EXCEPT ![ShutdownThread].i = @ + 1]
    /\ UNCHANGED <<httpVars, b, call, pc, vm, servers, procs, tracked, sent, initCalled>>

\* Shutdown: the loop is over; Kill, UntrackProcess and return
ConcShutdownKill ==
    /\ pc[ShutdownThread] = "sd_close"
    /\ frame[ShutdownThread].i > Len(frame[ShutdownThread].conns)
    /\ procs' = procs \ {vm.proc}
    /\ tracked' = tracked \ {vm.pid}
    /\ pc' = [pc EXCEPT ![ShutdownThread] = "done"]
    /\ UNCHANGED <<httpVars, b, call, frame, vm, servers, closed, sent, initCalled>>

NextConcurrent ==
    \/ ConcCreateHandlersCall
    \/ ConcCreateHandlersDial
    \/ ConcCreateHandlersLoad
    \/ ConcCreateHandlersStore
    \/ ConcShutdownCall
    \/ ConcShutdownRange
    \/ ConcShutdownClose
    \/ ConcShutdownKill

SpecConcurrent == InitConcurrent /\ [][NextConcurrent]_vars

(***************************************************************************)
(* The HTTP server (api/server): the router, the chain's lock, the         *)
(* registration of a chain's handlers and the serving of requests.         *)
(***************************************************************************)
\* the goroutines: the caller of RegisterChain, the goroutine RegisterChain
\* starts, and two goroutines of the HTTP server that serve requests
Caller == "cm"
Registrar == "reg"
RequestThreads == {"r1", "r2"}
ServerThreads == {Caller, Registrar} \cup RequestThreads

\* sync.RWMutex: w is the goroutine that holds it for writing ("": none), r the
\* goroutines that hold it for reading
NewRWMutex == [w |-> "", r |-> {}]
\* Lock returns when nobody holds the mutex
CanLock(m) == m.w = "" /\ m.r = {}
Lock(m, t) == [m EXCEPT !.w = t]
Unlock(m, t) == [m EXCEPT !.w = ""]
\* RLock returns when nobody holds the mutex for writing
CanRLock(m) == m.w = ""
RLock(m, t) == [m EXCEPT !.r = @ \cup {t}]
RUnlock(m, t) == [m EXCEPT !.r = @ \ {t}]

\* common.LockOption values a handler may declare: the three options and one
\* that is none of them
LockOptionValues == {WriteLock, ReadLock, NoLock, NoLock + 1}

\* route suffixes a VM may supply: the empty one, a well-formed one and one
\* that is no request URI
Extensions == {"", "/rpc", "\n"}
\* url.ParseRequestURI: whether it returns an error
ParseRequestURIFails(extension) == extension \in {"", "\n"}

\* the handler sets engine.GetVM().CreateHandlers may return: maps from route
\* suffix to the lock option of the handler; an empty one, ones whose handlers
\* are all valid, and ones with a handler of an unknown lock option or of a
\* malformed suffix next to a valid one
HandlerSets ==
    { [extension \in {} |-> NoLock],
      [extension \in {""} |-> NoLock],
      [extension \in {"", "/rpc"} |-> IF extension = "" THEN WriteLock ELSE ReadLock],
      [extension \in {"", "/rpc"} |-> IF extension = "" THEN NoLock + 1 ELSE WriteLock],
      [extension \in {"/rpc", "\n"} |-> IF extension = "/rpc" THEN NoLock ELSE ReadLock],
      [extension \in {"\n"} |-> NoLock + 1] }

\* http.StatusServiceUnavailable
StatusServiceUnavailable == 503

\* baseURL + "/" + path.Join(constants.ChainAliasPrefix, ctx.ChainID.String())
ChainURL == "/ext/bc/chain"
\* the base under which a handler adds routes of its own
ServiceURL == "/ext/service"

\* errUnknownLockOption
errUnknownLockOption == Err("invalid lock options", 0)
\* the error of router.AddRouter and router.AddAlias for a route that exists
errAlreadyExists == Err("route already exists", 0)

\* a route with a lock middleware that takes no lock for the Write option
lockMiddlewareNoWrite(lockOption) ==
    IF lockOption = WriteLock THEN [mode |-> "none", err |-> Nil]
    ELSE IF lockOption = ReadLock THEN [mode |-> "read", err |-> Nil]
    ELSE IF lockOption = NoLock THEN [mode |-> "none", err |-> Nil]
    ELSE [mode |-> "none", err |-> errUnknownLockOption]
\* a lock middleware that passes an unknown lock option as NoLock
lockMiddlewareLenient(lockOption) ==
    IF lockOption = WriteLock THEN [mode |-> "write", err |-> Nil]
    ELSE IF lockOption = ReadLock THEN [mode |-> "read", err |-> Nil]
    ELSE [mode |-> "none", err |-> Nil]
\* lockMiddleware: which before/after pair wraps the handler ("write": Lock and
\* Unlock, "read": RLock and RUnlock, "none": the handler itself), or the error
lockMiddleware(lockOption) ==
    IF lockOption = WriteLock THEN [mode |-> "write", err |-> Nil]
    ELSE IF lockOption = ReadLock THEN [mode |-> "read", err |-> Nil]
    ELSE IF lockOption = NoLock THEN [mode |-> "none", err |-> Nil]
    ELSE [mode |-> "none", err |-> errUnknownLockOption]

\* a reject middleware that lets every request through
rejectMiddlewareOpen(state) == TRUE
\* rejectMiddleware: whether the request goes on to the handler
rejectMiddleware(state) == state = "NormalOp"

\* a route of the router: the handler registered at base + endpoint, the lock
\* option it declared, how its middleware locks, and whether the reject
\* middleware guards it
Route(base, endpoint, lockOption, mode, gated) ==
    [base |-> base, endpoint |-> endpoint, lockOption |-> lockOption,
     mode |-> mode, gated |-> gated]

\* router.AddRouter, with the router's lock held: the route is added unless
\* one exists at base + endpoint
AddRouter(routes, route) ==
    IF \E x \in routes : x.base = route.base /\ x.endpoint = route.endpoint
    THEN [routes |-> routes, err |-> errAlreadyExists]
    ELSE [routes |-> routes \cup {route}, err |-> Nil]

\* router.AddAlias, with the router's lock held: the alias is added unless it
\* is taken
AddAlias(aliases, alias) ==
    IF alias \in aliases
    THEN [aliases |-> aliases, err |-> errAlreadyExists]
    ELSE [aliases |-> aliases \cup {alias}, err |-> Nil]

\* server.addChainRoute without the router's part: the route to add, or the
\* error of lockMiddleware
addChainRoute(endpoint, lockOption) ==
    LET h == lockMiddleware(lockOption)
    IN  [route |-> Route(ChainURL, endpoint, lockOption, h.mode, TRUE), err |-> h.err]

\* server.addRoute without the router's part
addRoute(base, endpoint, lockOption) ==
    LET h == lockMiddleware(lockOption)
    IN  [route |-> Route(base, endpoint, lockOption, h.mode, FALSE), err |-> h.err]

\* the variables of the adapter, which the HTTP server leaves alone
adapterVars == <<b, call, vm, servers, procs, tracked, closed, sent, initCalled>>

\* the server after Initialize, with no route, and a chain that is syncing
InitServer ==
    /\ b = NilBlock
    /\ call = NoCall
    /\ vm = NewClient
    /\ servers = <<>>
    /\ procs = {}
    /\ tracked = {}
    /\ closed = {}
    /\ sent = <<>>
    /\ initCalled = FALSE
    /\ pc = [t \in ServerThreads |-> "idle"]
    /\ frame = [t \in ServerThreads |-> NoFrame]
    /\ router = [lock |-> NewRWMutex, routes |-> {}, aliases |-> {}]
    /\ engine = [Lock |-> NewRWMutex, state |-> "StateSyncing"]

\* the chain goes from state sync to bootstrapping to normal operation
EngineAdvance ==
    /\ engine.state # "NormalOp"
    /\ engine' = [engine EXCEPT !.state = IF @ = "StateSyncing" THEN "Bootstrapping"
                                          ELSE "NormalOp"]
    /\ UNCHANGED <<adapterVars, pc, frame, router>>

\* the caller of RegisterChain takes the chain's context lock before the call
CallerLock ==
    /\ pc[Caller] = "idle"
    /\ pc[Registrar] = "idle"
    /\ CanLock(engine.Lock)
    /\ engine' = [engine EXCEPT !.Lock = Lock(@, Caller)]
    /\ pc' = [pc EXCEPT ![Caller] = "locked"]
    /\ UNCHANGED <<adapterVars, frame, router>>

\* the caller of RegisterChain releases the chain's context lock
CallerUnlock ==
    /\ pc[Caller] = "locked"
    /\ engine' = [engine EXCEPT !.Lock = Unlock(@, Caller)]
    /\ pc' = [pc EXCEPT ![Caller] = "idle"]
    /\ UNCHANGED <<adapterVars, frame, router>>

\* server.RegisterChain: go s.registerChain(chainName, engine)
RegisterChain ==
    /\ pc[Registrar] = "idle"
    /\ pc' = [pc EXCEPT ![Registrar] = "rc_lock"]
    /\ frame' = [frame EXCEPT ![Caller] = [op |-> "RegisterChain",
                                           held |-> engine.Lock.w = Caller]]
    /\ UNCHANGED <<adapterVars, router, engine>>

\* registerChain: ctx.Lock.Lock()
RegisterChainLock ==
    /\ pc[Registrar] = "rc_lock"
    /\ CanLock(engine.Lock)
    /\ engine' = [engine EXCEPT !.Lock = Lock(@, Registrar)]
    /\ pc' = [pc EXCEPT ![Registrar] = "rc_create"]
    /\ UNCHANGED <<adapterVars, frame, router>>

\* registerChain: handlers, err = engine.GetVM().CreateHandlers(context.TODO())
RegisterChainCreateHandlers ==
    /\ pc[Registrar] = "rc_create"
    /\ \E r \in {[err |-> ErrTransport, handlers |-> <<>>]}
                  \cup {[err |-> Nil, handlers |-> hs] : hs \in HandlerSets} :
         frame' = [frame EXCEPT ![Registrar] =
                     [op |-> "registerChain", handlers |-> r.handlers, err |-> r.err,
                      locked |-> engine.Lock.w = Registrar,
                      remaining |-> DOMAIN r.handlers, skipped |-> {},
                      route |-> Route(ChainURL, "", NoLock, "none", TRUE)]]
    /\ pc' = [pc EXCEPT ![Registrar] = "rc_unlock"]
    /\ UNCHANGED <<adapterVars, router, engine>>

\* a registerChain that keeps the lock while it adds the routes
AfterCreateHandlersHolding(m, t) == m
\* the chain's context lock after registerChain's ctx.Lock.Unlock()
AfterCreateHandlers(m, t) == Unlock(m, t)

\* registerChain: ctx.Lock.Unlock(), and the return when CreateHandlers failed
RegisterChainUnlock ==
    /\ pc[Registrar] = "rc_unlock"
    /\ engine' = [engine EXCEPT !.Lock = AfterCreateHandlers(@, Registrar)]
    /\ pc' = [pc EXCEPT ![Registrar] =
                IF frame[Registrar].err # Nil THEN "rc_done" ELSE "rc_range"]
    /\ UNCHANGED <<adapterVars, frame, router>>

\* registerChain: one iteration of the loop over the handlers, in the order of
\* the map's iteration, up to the call of router.AddRouter
RegisterChainRange ==
    /\ pc[Registrar] = "rc_range"
    /\ \E extension \in frame[Registrar].remaining :
         LET a == addChainRoute(extension, frame[Registrar].handlers[extension])
         IN  IF (extension # "" /\ ParseRequestURIFails(extension)) \/ a.err # Nil
             THEN /\ frame' = [frame EXCEPT
                                 ![Registrar].remaining = @ \ {extension},
                                 ![Registrar].skipped = @ \cup {extension}]
                  /\ UNCHANGED pc
             ELSE /\ frame' = [frame EXCEPT
                                 ![Registrar].remaining = @ \ {extension},
                                 ![Registrar].route = a.route]
                  /\ pc' = [pc EXCEPT ![Registrar] = "rc_add"]
    /\ UNCHANGED <<adapterVars, router, engine>>

\* addChainRoute: return s.router.AddRouter(url, endpoint, h), which takes
\* the router's lock
RegisterChainAddRouter ==
    /\ pc[Registrar] = "rc_add"
    /\ CanLock(router.lock)
    /\ router' = [router EXCEPT
                    !.routes = AddRouter(@, frame[Registrar].route).routes]
    /\ pc' = [pc EXCEPT ![Registrar] = "rc_range"]
    /\ UNCHANGED <<adapterVars, frame, engine>>

\* the goroutines blocked in, or about to enter, router.lock.Lock(): a blocked
\* Lock call of a sync.RWMutex excludes new readers
RouterLockWaiters ==
    {t \in ServerThreads :
        \/ pc[t] = "rc_add"
        \/ /\ pc[t] = "wrl_add"
           /\ \/ frame[t].adding = "aliases"
              \/ addRoute(ServiceURL, "/added", frame[t].lockOption).err = Nil}
\* router.lock.RLock() returns
CanRLockRouter == CanRLock(router.lock) /\ RouterLockWaiters = {}

\* registerChain: the loop is over
RegisterChainReturn ==
    /\ pc[Registrar] = "rc_range"
    /\ frame[Registrar].remaining = {}
    /\ pc' = [pc EXCEPT ![Registrar] = "rc_done"]
    /\ UNCHANGED <<adapterVars, frame, router, engine>>

\* router.ServeHTTP: a request for a registered route arrives; the router
\* takes its read lock and finds the route's handler
ServeHTTP(t) ==
    /\ pc[t] = "idle"
    /\ CanRLockRouter
    /\ \E route \in router.routes :
         /\ frame' = [frame EXCEPT ![t] =
                        [op |-> "ServeHTTP", route |-> route, state |-> "",
                         status |-> 0, locked |-> FALSE, invoked |-> FALSE,
                         adding |-> "", lockOption |-> NoLock, err |-> Nil]]
         /\ pc' = [pc EXCEPT ![t] = IF route.gated THEN "reject" ELSE "before"]
    /\ router' = [router EXCEPT !.lock = RLock(@, t)]
    /\ UNCHANGED <<adapterVars, engine>>

\* rejectMiddleware: ctx.GetState() != snow.NormalOp
RejectCheck(t) ==
    /\ pc[t] = "reject"
    /\ IF rejectMiddleware(engine.state)
       THEN /\ frame' = [frame EXCEPT ![t].state = engine.state]
            /\ pc' = [pc EXCEPT ![t] = "before"]
       ELSE /\ frame' = [frame EXCEPT ![t].state = engine.state,
                                      ![t].status = StatusServiceUnavailable]
            /\ pc' = [pc EXCEPT ![t] = "respond"]
    /\ UNCHANGED <<adapterVars, router, engine>>

\* middlewareHandler.ServeHTTP: m.before(), after which the handler starts
Before(t) ==
    /\ pc[t] = "before"
    /\ LET mode == frame[t].route.mode
       IN  /\ mode = "write" => CanLock(engine.Lock)
           /\ mode = "read" => CanRLock(engine.Lock)
           /\ engine' = [engine EXCEPT !.Lock =
                           IF mode = "write" THEN Lock(@, t)
                           ELSE IF mode = "read" THEN RLock(@, t)
                           ELSE @]
           /\ frame' = [frame EXCEPT ![t].locked = mode # "none",
                                      ![t].invoked = TRUE]
    /\ pc' = [pc EXCEPT ![t] = "running"]
    /\ UNCHANGED <<adapterVars, router>>

\* the handler returns, and what it added and got back goes with it
HandlerReturn(t) ==
    /\ pc[t] = "running"
    /\ frame' = [frame EXCEPT ![t].adding = "", ![t].err = Nil]
    /\ pc' = [pc EXCEPT ![t] = "after"]
    /\ UNCHANGED <<adapterVars, router, engine>>

\* the handler calls AddRouteWithReadLock: s.router.lock.RUnlock()
AddRouteWithReadLock(t) ==
    /\ pc[t] = "running"
    /\ frame[t].adding = ""
    /\ \E lockOption \in {ReadLock, NoLock + 1} :
         frame' = [frame EXCEPT ![t].adding = "route", ![t].lockOption = lockOption]
    /\ router' = [router EXCEPT !.lock = RUnlock(@, t)]
    /\ pc' = [pc EXCEPT ![t] = "wrl_add"]
    /\ UNCHANGED <<adapterVars, engine>>

\* the handler calls AddAliasesWithReadLock: s.router.lock.RUnlock()
AddAliasesWithReadLock(t) ==
    /\ pc[t] = "running"
    /\ frame[t].adding = ""
    /\ frame' = [frame EXCEPT ![t].adding = "aliases"]
    /\ router' = [router EXCEPT !.lock = RUnlock(@, t)]
    /\ pc' = [pc EXCEPT ![t] = "wrl_add"]
    /\ UNCHANGED <<adapterVars, engine>>

\* an AddRouteWithReadLock that takes the read lock again only on success
AfterAddRouteOnSuccess(err) == IF err # Nil THEN "running" ELSE "wrl_rlock"
\* where AddRouteWithReadLock and AddAliasesWithReadLock go when the
\* registration returned err: to the deferred s.router.lock.RLock()
AfterAddRoute(err) == "wrl_rlock"

\* AddRouteWithReadLock: return s.addRoute(handler, lock, base, endpoint)
AddRoute(t) ==
    /\ pc[t] = "wrl_add"
    /\ frame[t].adding = "route"
    /\ LET a == addRoute(ServiceURL, "/added", frame[t].lockOption)
       IN  IF a.err # Nil
           THEN /\ frame' = [frame EXCEPT ![t].err = a.err]
                /\ pc' = [pc EXCEPT ![t] = AfterAddRoute(a.err)]
                /\ UNCHANGED router
           ELSE /\ CanLock(router.lock)
                /\ LET added == AddRouter(router.routes, a.route)
                   IN  /\ router' = [router EXCEPT !.routes = added.routes]
                       /\ frame' = [frame EXCEPT ![t].err = added.err]
                       /\ pc' = [pc EXCEPT ![t] = AfterAddRoute(added.err)]
    /\ UNCHANGED <<adapterVars, engine>>

\* AddAliasesWithReadLock: return s.AddAliases(endpoint, aliases...)
AddAliases(t) ==
    /\ pc[t] = "wrl_add"
    /\ frame[t].adding = "aliases"
    /\ CanLock(router.lock)
    /\ LET added == AddAlias(router.aliases, "/ext/alias")
       IN  /\ router' = [router EXCEPT !.aliases = added.aliases]
           /\ frame' = [frame EXCEPT ![t].err = added.err]
           /\ pc' = [pc EXCEPT ![t] = AfterAddRoute(added.err)]
    /\ UNCHANGED <<adapterVars, engine>>

\* the deferred s.router.lock.RLock(), and the return to the handler
DeferredRLock(t) ==
    /\ pc[t] = "wrl_rlock"
    /\ CanRLockRouter
    /\ router' = [router EXCEPT !.lock = RLock(@, t)]
    /\ frame' = [frame EXCEPT ![t].adding = "done", ![t].lockOption = NoLock]
    /\ pc' = [pc EXCEPT ![t] = "running"]
    /\ UNCHANGED <<adapterVars, engine>>

\* middlewareHandler.ServeHTTP: the deferred m.after()
After(t) ==
    /\ pc[t] = "after"
    /\ LET mode == frame[t].route.mode
       IN  engine' = [engine EXCEPT !.Lock =
                        IF mode = "write" THEN Unlock(@, t)
                        ELSE IF mode = "read" THEN RUnlock(@, t)
                        ELSE @]
    /\ pc' = [pc EXCEPT ![t] = "respond"]
    /\ UNCHANGED <<adapterVars, frame, router>>

\* router.ServeHTTP returns: the deferred r.lock.RUnlock()
ServeReturn(t) ==
    /\ pc[t] = "respond"
    /\ router' = [router EXCEPT !.lock = RUnlock(@, t)]
    /\ frame' = [frame EXCEPT ![t] = NoFrame]
    /\ pc' = [pc EXCEPT ![t] = "idle"]
    /\ UNCHANGED <<adapterVars, engine>>

NextServer ==
    \/ EngineAdvance
    \/ CallerLock
    \/ CallerUnlock
    \/ RegisterChain
    \/ RegisterChainLock
    \/ RegisterChainCreateHandlers
    \/ RegisterChainUnlock
    \/ RegisterChainRange
    \/ RegisterChainAddRouter
    \/ RegisterChainReturn
    \/ \E t \in RequestThreads : ServeHTTP(t)
    \/ \E t \in RequestThreads : RejectCheck(t)
    \/ \E t \in RequestThreads : Before(t)
    \/ \E t \in RequestThreads : HandlerReturn(t)
    \/ \E t \in RequestThreads : AddRouteWithReadLock(t)
    \/ \E t \in RequestThreads : AddAliasesWithReadLock(t)
    \/ \E t \in RequestThreads : AddRoute(t)
    \/ \E t \in RequestThreads : AddAliases(t)
    \/ \E t \in RequestThreads : DeferredRLock(t)
    \/ \E t \in RequestThreads : After(t)
    \/ \E t \in RequestThreads : ServeReturn(t)

SpecServer == InitServer /\ [][NextServer]_vars

serverVars == <<pc, frame, router, engine>>

\* the scheduling of the server's goroutines: a goroutine that can take a step
\* takes it, and one that waits for a lock that is free again and again gets
\* it; the caller of RegisterChain and the chain's state are left free
SpecServerLive ==
    /\ InitServer
    /\ [][NextServer]_vars
    /\ SF_serverVars(RegisterChainLock)
    /\ WF_serverVars(RegisterChainCreateHandlers)
    /\ WF_serverVars(RegisterChainUnlock)
    /\ WF_serverVars(RegisterChainRange)
    /\ WF_serverVars(RegisterChainAddRouter)
    /\ WF_serverVars(RegisterChainReturn)
    /\ \A t \in RequestThreads :
         /\ WF_serverVars(RejectCheck(t))
         /\ SF_serverVars(Before(t))
         /\ WF_serverVars(HandlerReturn(t))
         /\ WF_serverVars(AddRoute(t))
         /\ WF_serverVars(AddAliases(t))
         /\ WF_serverVars(DeferredRLock(t))
         /\ WF_serverVars(After(t))
         /\ WF_serverVars(ServeReturn(t))


(***************************************************************************)
(* C1 -- status transitions of a block handle.                             *)
(***************************************************************************)
\* C1 as stated: a step that changes the status of a handle starts from
\* Processing and is an Accept ending in Accepted or a Reject ending in
\* Rejected; so a decided handle never changes status again.
C1_StatusChangesOnce ==
    [][(~b.nil /\ b'.status # b.status) =>
          /\ b.status = Processing
          /\ \/ call'.op = "BlockAccept" /\ b'.status = Accepted
             \/ call'.op = "BlockReject" /\ b'.status = Rejected]_vars

\* C1 (amended): the status of a handle changes only in an Accept or a Reject,
\* never in a Verify; every Accept leaves the handle Accepted and every Reject
\* leaves it Rejected, whatever its status was; a Verify leaves it as it was.
C1_StatusOnlyByAcceptReject ==
    [][/\ (~b.nil /\ b'.status # b.status) =>
             call'.op \in {"BlockAccept", "BlockReject"}
       /\ call'.op = "BlockAccept" => b'.status = Accepted
       /\ call'.op = "BlockReject" => b'.status = Rejected
       /\ call'.op = "BlockVerify" => b'.status = b.status]_vars

\* an Accepted handle was rejected: its status changed a second time
C1_Witness ==
    /\ call.op = "BlockReject"
    /\ call.in.status = Accepted
    /\ b.status = Rejected

(***************************************************************************)
(* C2 -- BatchedParseBlock.                                                *)
(***************************************************************************)
\* handle i of a BatchedParseBlock result carries the metadata of response
\* entry i and the bytes of input entry i
Paired(blk, bytes, entry) ==
    /\ ~blk.nil
    /\ blk.id = entry.Id
    /\ blk.parentID = entry.ParentId
    /\ blk.status = entry.Status
    /\ blk.height = entry.Height
    /\ blk.time = [isZero |-> FALSE, sec |-> entry.Timestamp.seconds,
                   nsec |-> entry.Timestamp.nanos]
    /\ blk.bytes = bytes

\* every field of a response entry that the adapter decodes is well-formed
Decodable(entry) ==
    /\ Len(entry.Id) = IDLen
    /\ Len(entry.ParentId) = IDLen
    /\ entry.Status \in {Unknown, Processing, Rejected, Accepted}
    /\ entry.Timestamp.nanos >= 0

\* C2 as stated: a response whose length differs from the input's fails with
\* the batch-count-mismatch error and no handles; a response of the input's
\* length N yields N handles in input order, paired positionally.
C2_BatchedParseAsStated ==
    (call.op = "BatchedParseBlock" /\ call.rpcErr = Nil) =>
        IF Len(call.resp) # Len(call.in)
        THEN /\ call.err = errBatchedParseBlockWrongNumberOfBlocks
             /\ call.out.blks = <<>>
        ELSE /\ call.err = Nil
             /\ Len(call.out.blks) = Len(call.in)
             /\ \A i \in 1..Len(call.in) :
                  Paired(call.out.blks[i], call.in[i], call.resp[i])

\* C2 (amended): a response whose length differs from the input's fails with
\* the batch-count-mismatch error and no handles; a response of the input's
\* length N whose entries all decode yields N handles in input order, paired
\* positionally; one with an entry that does not decode fails with no handles.
C2_BatchedParse ==
    (call.op = "BatchedParseBlock" /\ call.rpcErr = Nil) =>
        IF Len(call.resp) # Len(call.in)
        THEN /\ call.err = errBatchedParseBlockWrongNumberOfBlocks
             /\ call.out.blks = <<>>
        ELSE IF \A i \in 1..Len(call.resp) : Decodable(call.resp[i])
        THEN /\ call.err = Nil
             /\ Len(call.out.blks) = Len(call.in)
             /\ \A i \in 1..Len(call.in) :
                  Paired(call.out.blks[i], call.in[i], call.resp[i])
        ELSE /\ call.err \notin {Nil, errBatchedParseBlockWrongNumberOfBlocks}
             /\ call.out.blks = <<>>

\* two different inputs were parsed into two different handles
C2_Witness ==
    /\ call.op = "BatchedParseBlock"
    /\ call.rpcErr = Nil
    /\ call.err = Nil
    /\ Len(call.in) = 2
    /\ call.in[1] # call.in[2]
    /\ call.resp[1] # call.resp[2]
    /\ Len(call.out.blks) = 2

(***************************************************************************)
(* C3 -- StateSyncEnabled.                                                 *)
(***************************************************************************)
\* C3: when the RPC succeeds, StateSyncEnabled returns (false, no error) on the
\* not-implemented code, (false, that error) on any other non-zero code
\* whatever the response's enabled flag, and (enabled flag, no error) on code 0.
C3_StateSyncEnabled ==
    (call.op = "StateSyncEnabled" /\ call.rpcErr = Nil) =>
        IF errCodeToError(call.resp.Err) = ErrStateSyncableVMNotImplemented
        THEN call.out = FALSE /\ call.err = Nil
        ELSE IF call.resp.Err # 0
        THEN /\ call.out = FALSE
             /\ call.err # Nil
             /\ call.err = errCodeToError(call.resp.Err)
        ELSE call.out = call.resp.Enabled /\ call.err = Nil

(***************************************************************************)
(* C4 -- a non-zero error code is a failure with an empty result.          *)
(***************************************************************************)
\* the result of the call is nil (a handle) or empty (an identifier)
EmptyResult ==
    IF call.op = "GetBlockIDAtHeight" THEN call.out = EmptyID ELSE call.out.nil

\* C4: for GetBlock, GetBlockIDAtHeight and the four state-summary getters, a
\* response with a non-zero error code, in the table or not, yields a non-nil
\* error and a nil/empty result.
C4_NonZeroCodeFails ==
    (/\ call.op \in {"GetBlock", "GetBlockIDAtHeight", "GetOngoingSyncStateSummary",
                     "GetLastStateSummary", "ParseStateSummary", "GetStateSummary"}
     /\ call.rpcErr = Nil
     /\ call.resp.Err # 0) =>
        call.err # Nil /\ EmptyResult

(***************************************************************************)
(* C5 -- Shutdown attempts every step and reports the first error.         *)
(***************************************************************************)
\* the first non-nil error of a sequence of errors, Nil when there is none
FirstError(errs) ==
    IF \A i \in 1..Len(errs) : errs[i] = Nil THEN Nil
    ELSE errs[Least({i \in 1..Len(errs) : errs[i] # Nil})]

\* C5: once Shutdown has returned, the plugin was asked to shut down, every
\* local server was stopped, Close was called on every auxiliary connection,
\* the process was killed and its pid untracked, whichever of the remote call
\* and the closes failed; the error returned is the first of their errors, and
\* it is nil only when none of them failed.
C5_ShutdownAttemptsAll ==
    call.op = "Shutdown" =>
        /\ \E k \in 1..Len(sent) : sent[k].method = "Shutdown"
        /\ vm.closerClosed
        /\ \A k \in 1..Len(servers) : servers[k].stopped
        /\ \A i \in 1..Len(vm.conns) : vm.conns[i].id \in closed
        /\ vm.proc \notin procs
        /\ vm.pid \notin tracked
        /\ Len(call.resp) = 1 + Len(vm.conns)
        /\ call.err = FirstError(call.resp)
        /\ call.err = Nil <=> \A i \in 1..Len(call.resp) : call.resp[i] = Nil

\* the remote call and the second of two closes failed, with servers running:
\* Shutdown returned the remote call's error
C5_Witness ==
    /\ call.op = "Shutdown"
    /\ Len(servers) > 0
    /\ Len(call.resp) = 3
    /\ call.resp[1] = ErrTransport
    /\ call.resp[2] = Nil
    /\ call.resp[3] # Nil
    /\ call.err = ErrTransport

(***************************************************************************)
(* C6 -- the order of the teardown.                                        *)
(***************************************************************************)
\* the teardown events of the Shutdown under way or returned, in order
TeardownSteps ==
    IF frame.op = "Shutdown" THEN frame.steps
    ELSE IF call.op = "Shutdown" THEN call.in
    ELSE <<>>

\* the order the teardown is to follow
TeardownOrder ==
    <<"request", "stop">> \o [i \in 1..Len(vm.conns) |-> "close"]
        \o <<"kill", "untrack">>

IsPrefix(s, t) == Len(s) <= Len(t) /\ \A i \in 1..Len(s) : s[i] = t[i]

ShutdownRequested == \E k \in 1..Len(sent) : sent[k].method = "Shutdown"
Killed == vm.proc # 0 /\ vm.proc \notin procs
Untracked == vm.pid # 0 /\ vm.pid \notin tracked

\* C6: the teardown events of a Shutdown occur in the order request, stop,
\* closes, kill, untrack: no server is stopped before the plugin was asked to
\* shut down, no connection closed before the servers were stopped, the process
\* is killed only after the request, the stop and every close, and the pid is
\* untracked only after the kill.
C6_TeardownInOrder ==
    /\ IsPrefix(TeardownSteps, TeardownOrder)
    /\ call.op = "Shutdown" => TeardownSteps = TeardownOrder
    /\ vm.closerClosed => ShutdownRequested
    /\ closed # {} => vm.closerClosed
    /\ Killed =>
         /\ ShutdownRequested
         /\ vm.closerClosed
         /\ \A i \in 1..Len(vm.conns) : vm.conns[i].id \in closed
    /\ Untracked => Killed

\* the process has been killed, after servers were stopped and connections
\* closed, and its pid is still tracked
C6_Witness ==
    /\ pc = "sd_untrack"
    /\ Killed
    /\ vm.pid \in tracked
    /\ Len(servers) > 0
    /\ Len(vm.conns) = 2
    /\ closed = {1, 2}

(***************************************************************************)
(* C7 -- Initialize with feature extensions.                               *)
(***************************************************************************)
\* C7: an Initialize call with a non-empty feature-extension list returns the
\* unsupported-feature-extensions error at once: it starts no server, builds
\* no proxy service, issues no remote call and leaves the adapter as it was.
C7_UnsupportedFXs ==
    [][(/\ call'.op = "Initialize"
        /\ call.op = "Initialize" => call' # call
        /\ call'.in.fxs # 0) =>
          /\ call'.err = errUnsupportedFXs
          /\ pc = "idle" /\ pc' = "idle"
          /\ call'.rpcs = <<>>
          /\ UNCHANGED <<vm, servers, sent, frame, procs, tracked, closed>>]_vars

\* a call with feature extensions was turned away by an adapter that holds a
\* state wrapper and another context than the call's
C7_Witness ==
    /\ call.op = "Initialize"
    /\ call.in.fxs # 0
    /\ call.err = errUnsupportedFXs
    /\ ~vm.State.nil
    /\ vm.ctx # call.in.chainCtx

(***************************************************************************)
(* C8 -- the remote Initialize call comes after the servers.               *)
(***************************************************************************)
\* C8: when the remote Initialize request is issued, this Initialize has
\* launched one database server per versioned database and the server of the
\* proxy services, all running on distinct addresses; the request lists one
\* (address, version) pair per database in the manager's order, pair i naming
\* the address of the server of database i and that database's version, no
\* database has two servers, and the request names the proxy server's address.
C8_ServersBeforeRequest ==
    [][(sent' # sent /\ sent'[Len(sent')].method = "Initialize") =>
          LET req == sent'[Len(sent')]
              dbs == frame.versionedDBs
              mine == (frame.base + 1)..Len(servers)
          IN  /\ Len(req.DbServers) = Len(dbs)
              /\ Cardinality({k \in mine : servers[k].service = "db"}) = Len(dbs)
              /\ \A k \in mine : ~servers[k].stopped
              /\ \A k1, k2 \in mine : k1 # k2 => servers[k1].addr # servers[k2].addr
              /\ \A k1, k2 \in mine :
                   (/\ k1 # k2
                    /\ servers[k1].service = "db"
                    /\ servers[k2].service = "db") => servers[k1].db # servers[k2].db
              /\ \A i \in 1..Len(dbs) :
                   /\ req.DbServers[i].Version =
                        <<"v", dbs[i].Version.major, ".", dbs[i].Version.minor, ".",
                          dbs[i].Version.patch>>
                   /\ \E k \in mine :
                        /\ servers[k].service = "db"
                        /\ servers[k].db = dbs[i].Database
                        /\ servers[k].addr = req.DbServers[i].ServerAddr
              /\ \A i, j \in 1..Len(dbs) :
                   i # j => req.DbServers[i].ServerAddr # req.DbServers[j].ServerAddr
              /\ \E k \in mine :
                   /\ servers[k].service = "vm"
                   /\ servers[k].addr = req.ServerAddr]_vars

\* the request for a manager with two databases has been issued
C8_Witness ==
    /\ pc = "init_decode"
    /\ Len(frame.versionedDBs) = 2
    /\ Len(sent) = 1
    /\ Len(sent[1].DbServers) = 2
    /\ Len(servers) = 3

(***************************************************************************)
(* C9 -- a successful Initialize.                                          *)
(***************************************************************************)
\* C9: when Initialize returns no error, the state wrapper is installed and
\* its last accepted block has status Accepted and the id, parent, bytes,
\* height and timestamp of the response; the one request sent carries the
\* network, subnet and chain identifiers of the context supplied.
C9_SuccessfulInitialize ==
    [][(frame.op = "Initialize" /\ pc' = "idle" /\ call'.err = Nil) =>
          LET resp == call'.resp
              req == sent'[Len(sent')]
              chainCtx == call'.in.chainCtx
          IN  /\ call'.in.fxs = 0
              /\ ~vm'.State.nil
              /\ vm'.State.lastAccepted =
                   [nil |-> FALSE, id |-> resp.LastAcceptedId,
                    parentID |-> resp.LastAcceptedParentId, status |-> Accepted,
                    bytes |-> resp.Bytes, height |-> resp.Height,
                    time |-> [isZero |-> FALSE, sec |-> resp.Timestamp.seconds,
                              nsec |-> resp.Timestamp.nanos]]
              /\ call'.rpcs = <<req>>
              /\ req.method = "Initialize"
              /\ req.NetworkId = chainCtx.NetworkID
              /\ req.SubnetId = chainCtx.SubnetID
              /\ req.ChainId = chainCtx.ChainID]_vars

\* Initialize succeeded on the response whose block has height 7
C9_Witness ==
    /\ call.op = "Initialize"
    /\ call.err = Nil
    /\ call.resp.Height = 7
    /\ vm.State.lastAccepted.status = Accepted
    /\ vm.State.lastAccepted.height = 7

(***************************************************************************)
(* C10 -- a failing Initialize.                                            *)
(***************************************************************************)
\* C10: Initialize never goes on after a step failed, and a failing step
\* returns with the servers launched so far left running; when a listener or
\* the remote call failed, no response was decoded and the state wrapper is
\* the one the adapter had when Initialize was called; when a listener failed,
\* no remote call was issued.
C10_InitializeAborts ==
    [][/\ frame'.op = "Initialize" => frame'.err = Nil
       /\ (frame.op = "Initialize" /\ pc' = "idle" /\ call'.err # Nil) =>
            /\ servers' = servers
            /\ \A k \in (frame.base + 1)..Len(servers') : ~servers'[k].stopped
            /\ vm'.closerClosed = vm.closerClosed
            /\ vm'.State = vm.State
            /\ call'.err \in {errListen, ErrTransport} =>
                 /\ vm'.State = frame.vm0.State
                 /\ frame.lastAcceptedBlk.nil
                 /\ call'.resp = NilLastAccepted
            /\ call'.err = errListen => (sent' = sent /\ call'.rpcs = <<>>)
            /\ call'.err = ErrTransport => call'.rpcErr = ErrTransport]_vars

\* the remote call failed after three servers were launched: they run on, and
\* no state wrapper is installed
C10_Witness ==
    /\ call.op = "Initialize"
    /\ call.err = ErrTransport
    /\ pc = "idle"
    /\ Len(servers) = 3
    /\ \A k \in 1..Len(servers) : ~servers[k].stopped
    /\ vm.State.nil

(***************************************************************************)
(* C11 -- where the fields of a handle come from.                          *)
(***************************************************************************)
\* the handle blk reads, through its accessors, the given values
Reads(blk, id, parentID, status, bytes, height, ts) ==
    /\ ID(blk) = id
    /\ Parent(blk) = parentID
    /\ Status(blk) = status
    /\ Bytes(blk) = bytes
    /\ Height(blk) = height
    /\ Timestamp(blk) = TimestampAsTime(ts).time

\* C11: the bytes of a handle are the response's payload when it comes from
\* BuildBlock or GetBlock and the caller's input when it comes from ParseBlock
\* or BatchedParseBlock, whatever payload the response carries; its id, parent,
\* status, height and timestamp read as the values it was built from (the
\* response's, but Processing for a built block and the requested id for a
\* fetched one).
C11_HandleFields ==
    /\ (call.op = "BuildBlock" /\ ~call.out.nil) =>
         Reads(call.out, call.resp.Id, call.resp.ParentId, Processing,
               call.resp.Bytes, call.resp.Height, call.resp.Timestamp)
    /\ (call.op = "GetBlock" /\ ~call.out.nil) =>
         Reads(call.out, call.in, call.resp.ParentId, call.resp.Status,
               call.resp.Bytes, call.resp.Height, call.resp.Timestamp)
    /\ (call.op = "ParseBlock" /\ ~call.out.nil) =>
         Reads(call.out, call.resp.Id, call.resp.ParentId, call.resp.Status,
               call.in, call.resp.Height, call.resp.Timestamp)
    /\ (call.op = "BatchedParseBlock" /\ ~call.out.nil) =>
         /\ Len(call.out.blks) = Len(call.in)
         /\ \A i \in 1..Len(call.out.blks) :
              Reads(call.out.blks[i], call.resp[i].Id, call.resp[i].ParentId,
                    call.resp[i].Status, call.in[i], call.resp[i].Height,
                    call.resp[i].Timestamp)
    /\ call.op \in {"BuildBlock", "GetBlock", "ParseBlock"} => b = call.out

\* ParseBlock of bytes the plugin does not echo, answered with status Accepted
\* and height 7: the handle has the caller's bytes
C11_Witness ==
    /\ call.op = "ParseBlock"
    /\ call.err = Nil
    /\ call.resp.Bytes # call.in
    /\ call.resp.Status = Accepted
    /\ call.resp.Height = 7
    /\ Bytes(call.out) = call.in
    /\ Status(call.out) = Accepted
    /\ Height(call.out) = 7

(***************************************************************************)
(* C12 -- what the operations on a handle leave alone.                     *)
(***************************************************************************)
\* C12: no step taken on a handle, whether Verify, Accept, Reject or a read
\* through the accessors, and whether it succeeds or fails, changes the
\* handle's bytes, id, parent id or height; a read through the accessors
\* changes nothing on the handle, issues no remote call and returns the fields
\* as they are, so that two reads in a row return the same values.
C12_HandleFrame ==
    [][/\ ~b.nil =>
            /\ ~b'.nil
            /\ b'.bytes = b.bytes
            /\ b'.id = b.id
            /\ b'.parentID = b.parentID
            /\ b'.height = b.height
       /\ call'.op = "BlockAccessors" =>
            /\ b' = b
            /\ call'.rpcs = <<>>
            /\ call'.err = Nil
            /\ call'.out = b
       /\ (call.op = "BlockAccessors" /\ call'.op = "BlockAccessors") =>
            call'.out = call.out]_vars

\* a Verify answered with an undecodable timestamp has failed on a handle that
\* was accepted before: bytes, id, parent and height are as they were
C12_Witness ==
    /\ call.op = "BlockVerify"
    /\ call.rpcErr = Nil
    /\ call.err # Nil
    /\ ~b.nil
    /\ call.in.status = Accepted
    /\ b.bytes = call.in.bytes
    /\ b.id = call.in.id
    /\ b.parentID = call.in.parentID
    /\ b.height = call.in.height
    /\ b.time # call.in.time

(***************************************************************************)
(* C13 -- VerifyHeightIndex and the not-implemented code.                  *)
(***************************************************************************)
\* the response of the call carries the height index's not-implemented code
HeightIndexNotImplemented ==
    /\ call.rpcErr = Nil
    /\ errCodeToError(call.resp.Err) = ErrHeightIndexedVMNotImplemented

\* C13: VerifyHeightIndex returns the not-implemented error when, and only
\* when, the plugin answered with the not-implemented code: that error is not
\* nil, so it is not mistaken for success, and no transport error and no other
\* code yields it; a response with code 0 yields no error.
C13_VerifyHeightIndex ==
    call.op = "VerifyHeightIndex" =>
        /\ HeightIndexNotImplemented => call.err = ErrHeightIndexedVMNotImplemented
        /\ call.err = ErrHeightIndexedVMNotImplemented => HeightIndexNotImplemented
        /\ ErrHeightIndexedVMNotImplemented # Nil
        /\ (call.rpcErr = Nil /\ call.resp.Err = 0) => call.err = Nil
        /\ \A c1, c2 \in ErrCodes :
             (/\ errCodeToError(c1) = ErrHeightIndexedVMNotImplemented
              /\ errCodeToError(c2) = ErrHeightIndexedVMNotImplemented) => c1 = c2

\* the plugin answered with the not-implemented code
C13_Witness ==
    /\ call.op = "VerifyHeightIndex"
    /\ HeightIndexNotImplemented
    /\ call.resp.Err # 0
    /\ call.err = ErrHeightIndexedVMNotImplemented

(***************************************************************************)
(* C14 -- concurrent CreateHandlers and the list of connections.           *)
(***************************************************************************)
\* C14: with CreateHandlers / CreateStaticHandlers calls running concurrently,
\* every connection whose append has completed is in vm.conns, and once
\* Shutdown has returned every connection appended before Shutdown read the
\* list has been closed.
C14_NoConnectionLost ==
    /\ \A t \in HandlerThreads : \A c \in Appended(t) :
         \E i \in 1..Len(vm.conns) : vm.conns[i].id = c
    /\ pc[ShutdownThread] = "done" => frame[ShutdownThread].before \subseteq closed

(***************************************************************************)
(* C15 -- no result alongside an error.                                    *)
(***************************************************************************)
\* C15: BuildBlock, ParseBlock, GetBlock, BatchedParseBlock and the four
\* state-summary getters never return a non-nil handle, or a list of handles,
\* together with a non-nil error.
C15_NoResultWithError ==
    (/\ call.op \in {"BuildBlock", "ParseBlock", "GetBlock", "BatchedParseBlock",
                     "GetOngoingSyncStateSummary", "GetLastStateSummary",
                     "ParseStateSummary", "GetStateSummary"}
     /\ call.err # Nil) => call.out.nil

(***************************************************************************)
(* C16 -- one remote call per invocation.                                  *)
(***************************************************************************)
\* the steady-state methods, each with the remote method it calls
RemoteMethod ==
    [op \in {"SetState", "BuildBlock", "ParseBlock", "GetBlock", "SetPreference",
             "BlockAccept", "BlockReject", "BlockVerify", "GetAncestors",
             "BatchedParseBlock", "VerifyHeightIndex", "GetBlockIDAtHeight",
             "StateSyncEnabled", "GetOngoingSyncStateSummary",
             "GetLastStateSummary", "ParseStateSummary", "GetStateSummary",
             "StateSummaryAccept", "HealthCheck", "Version", "AppRequest",
             "AppResponse", "AppRequestFailed", "AppGossip", "CrossChainAppRequest",
             "CrossChainAppRequestFailed", "CrossChainAppResponse"} |->
        IF op = "HealthCheck" THEN "Health" ELSE op]

\* C16: every invocation of a steady-state method issues exactly one remote
\* call, the one of its method, and when that call fails with a transport error
\* the method returns an error without having issued a second call.
C16_OneRemoteCall ==
    call.op \in DOMAIN RemoteMethod =>
        /\ Len(call.rpcs) = 1
        /\ call.rpcs[1].method = RemoteMethod[call.op]
        /\ call.rpcErr # Nil => call.err # Nil

\* SetState has returned the transport error of its one remote call
C16_Witness ==
    /\ call.op = "SetState"
    /\ call.rpcErr = ErrTransport
    /\ call.err = ErrTransport
    /\ Len(call.rpcs) = 1

(***************************************************************************)
(* C17 -- the plugin process and its tracked pid.                          *)
(***************************************************************************)
\* SetProcess has been called
ProcessSet == vm.pid # 0

\* an Initialize that was started has returned an error and installed nothing
InitializeFailed ==
    /\ initCalled
    /\ frame.op # "Initialize"
    /\ vm.State = NilState

\* C17 as stated: in every run in which SetProcess was called, the process is
\* eventually killed and its pid untracked.
C17_PairedInEveryRun == ProcessSet ~> (Killed /\ Untracked)

\* C17: SetProcess registers the plugin pid with the tracker; until Shutdown is
\* called the pid stays tracked and the process alive; only a Shutdown under way
\* kills the process or untracks a pid; and once Shutdown has been called, the
\* process is eventually killed and the same pid untracked, also when Initialize
\* has failed.
C17_TrackingPaired ==
    /\ [][(~ProcessSet /\ ProcessSet') =>
             (vm'.pid = vm'.proc /\ vm'.pid \in tracked')]_<<pc, vm, procs, tracked>>
    /\ []((ProcessSet /\ ~ShutdownRequested) =>
             (vm.pid \in tracked /\ vm.proc \in procs))
    /\ [][/\ procs' # procs => (pc = "sd_kill" /\ procs' = procs \ {vm.proc})
          /\ ~(tracked \subseteq tracked') =>
                (pc = "sd_untrack" /\ tracked' = tracked \ {vm.pid})
          /\ ProcessSet => (vm'.pid = vm.pid /\ vm'.proc = vm.proc)]_<<pc, vm, procs, tracked>>
    /\ ShutdownRequested ~> (Killed /\ Untracked)

\* Initialize failed, Shutdown was called afterwards and has returned: the
\* process is killed and its pid untracked
C17_Witness ==
    /\ call.op = "Shutdown"
    /\ InitializeFailed
    /\ Killed
    /\ Untracked

(***************************************************************************)
(* C18 -- Accept and Reject mark the handle whatever the plugin answers.   *)
(***************************************************************************)
\* C18: an Accept leaves the handle Accepted and a Reject leaves it Rejected
\* also when the remote call fails with a transport error, which is returned;
\* but for the status the handle is as it was: nothing of the response is
\* stored on it.
C18_OptimisticStatus ==
    [][/\ call'.op = "BlockAccept" =>
            /\ b' = [b EXCEPT !.status = Accepted]
            /\ call'.err = call'.rpcErr
            /\ call'.rpcs[1].Id = b.id
       /\ call'.op = "BlockReject" =>
            /\ b' = [b EXCEPT !.status = Rejected]
            /\ call'.err = call'.rpcErr
            /\ call'.rpcs[1].Id = b.id]_vars

\* an Accept of a Processing handle has failed with a transport error: the
\* handle is Accepted
C18_Witness ==
    /\ call.op = "BlockAccept"
    /\ call.err = ErrTransport
    /\ call.in.status = Processing
    /\ b.status = Accepted

(***************************************************************************)
(* C19 -- Verify and the timestamp of the handle.                          *)
(***************************************************************************)
\* C19: Verify sends the bytes of the handle; when it returns no error the
\* handle's timestamp is the one decoded from the response, and when it
\* returns an error, a transport error or an undecodable timestamp, the
\* handle's timestamp is the one it had before the call.
C19_VerifyTimestamp ==
    call.op = "BlockVerify" =>
        /\ call.rpcs[1].Bytes = call.in.bytes
        /\ call.err = Nil =>
             b.time = [isZero |-> FALSE, sec |-> call.resp.Timestamp.seconds,
                       nsec |-> call.resp.Timestamp.nanos]
        /\ call.err # Nil => b.time = call.in.time

(***************************************************************************)
(* C20 -- Accept on a state summary.                                       *)
(***************************************************************************)
\* C20: summaryClient.Accept sends the bytes of the summary; on a transport
\* error it returns (false, that error), on a response with code 0 the
\* response's flag and no error, and on a response with a non-zero code a
\* non-nil error, whatever the flag.
C20_SummaryAccept ==
    call.op = "StateSummaryAccept" =>
        /\ call.rpcs[1].Bytes = call.in.bytes
        /\ call.rpcErr # Nil => (call.out = FALSE /\ call.err = call.rpcErr)
        /\ (call.rpcErr = Nil /\ call.resp.Err = 0) =>
             (call.out = call.resp.Accepted /\ call.err = Nil)
        /\ (call.rpcErr = Nil /\ call.resp.Err # 0) => call.err # Nil

(***************************************************************************)
(* C21 -- SetState and the tracked last-accepted block.                    *)
(***************************************************************************)
\* a response whose id, parent id and timestamp decode
WellFormedLastAccepted(resp) ==
    /\ Len(resp.LastAcceptedId) = IDLen
    /\ Len(resp.LastAcceptedParentId) = IDLen
    /\ resp.Timestamp.nanos >= 0

\* a step that is a whole SetState call on an initialized adapter
SetStateStep ==
    /\ pc = "idle"
    /\ pc' = "idle"
    /\ call'.op = "SetState"
    /\ ~vm.State.nil

\* C21: on an initialized adapter, a SetState whose remote call succeeds with a
\* well-formed response returns no error and leaves as tracked last-accepted
\* block a handle of status Accepted with the response's id, parent id, bytes,
\* height and timestamp; a SetState whose remote call fails, or whose response
\* has an id, parent id or timestamp that does not decode, returns an error and
\* leaves the tracked last-accepted block as it was.
C21_SetStateLastAccepted ==
    [][SetStateStep =>
         IF call'.rpcErr = Nil /\ WellFormedLastAccepted(call'.resp)
         THEN /\ call'.err = Nil
              /\ ~vm'.State.nil
              /\ vm'.State.lastAccepted =
                   [nil |-> FALSE,
                    id |-> call'.resp.LastAcceptedId,
                    parentID |-> call'.resp.LastAcceptedParentId,
                    status |-> Accepted,
                    bytes |-> call'.resp.Bytes,
                    height |-> call'.resp.Height,
                    time |-> [isZero |-> FALSE,
                              sec |-> call'.resp.Timestamp.seconds,
                              nsec |-> call'.resp.Timestamp.nanos]]
         ELSE /\ call'.err # Nil
              /\ call'.rpcErr # Nil => call'.err = call'.rpcErr
              /\ vm'.State = vm.State]_<<pc, vm, call>>

\* a SetState on an initialized adapter has returned no error: the tracked
\* last-accepted block is the one of its response
C21_Witness ==
    /\ call.op = "SetState"
    /\ call.err = Nil
    /\ ~vm.State.nil
    /\ call.resp.Height = 7
    /\ vm.State.lastAccepted.id = call.resp.LastAcceptedId
    /\ vm.State.lastAccepted.height = 7

(***************************************************************************)
(* C22 -- the connections of CreateHandlers and CreateStaticHandlers.      *)
(***************************************************************************)
\* a step that is a whole CreateHandlers or CreateStaticHandlers call
CreateHandlersStep ==
    /\ pc = "idle"
    /\ pc' = "idle"
    /\ call'.op \in {"CreateHandlers", "CreateStaticHandlers"}

\* the connections vm.conns holds after the step beyond those it held before
OpenedConns == SubSeq(vm'.conns, Len(vm.conns) + 1, Len(vm'.conns))

\* C22: CreateHandlers and CreateStaticHandlers dial the triples of the response
\* in order and append each connection opened to vm.conns, after those already
\* there.  When no Dial fails they open one connection per triple and return a
\* map that has, at the prefix of every triple, a handler with that triple's
\* lock option over a connection opened to the triple's address.  When the Dial
\* of the k-th triple fails they return an error and no handlers, and the k-1
\* connections opened before are in vm.conns.  No call removes a connection from
\* vm.conns, and a Shutdown that has returned has closed every one of them.
C22_HandlerConnections ==
    /\ [][CreateHandlersStep =>
            LET resp == call'.resp
                failAt == call'.in
                opened == OpenedConns
            IN  /\ Len(vm'.conns) >= Len(vm.conns)
                /\ SubSeq(vm'.conns, 1, Len(vm.conns)) = vm.conns
                /\ \A i \in 1..Len(opened) :
                     /\ opened[i].addr = resp[i].ServerAddr
                     /\ \A j \in 1..Len(vm'.conns) :
                          vm'.conns[j].id = opened[i].id => j = Len(vm.conns) + i
                /\ call'.rpcErr # Nil =>
                     /\ call'.err = call'.rpcErr
                     /\ call'.out.nil
                     /\ opened = <<>>
                /\ (call'.rpcErr = Nil /\ failAt = 0) =>
                     /\ call'.err = Nil
                     /\ ~call'.out.nil
                     /\ Len(opened) = Len(resp)
                     /\ DOMAIN call'.out.handlers =
                          {resp[i].Prefix : i \in 1..Len(resp)}
                     /\ \A i \in 1..Len(resp) :
                          LET h == call'.out.handlers[resp[i].Prefix]
                          IN  /\ h.LockOptions = resp[i].LockOptions
                              /\ \E k \in 1..Len(opened) :
                                   /\ opened[k].id = h.conn
                                   /\ opened[k].addr = resp[i].ServerAddr
                /\ (call'.rpcErr = Nil /\ failAt # 0) =>
                     /\ call'.err # Nil
                     /\ call'.out.nil
                     /\ Len(opened) = failAt - 1]_<<pc, vm, call>>
    /\ [][/\ Len(vm'.conns) >= Len(vm.conns)
          /\ SubSeq(vm'.conns, 1, Len(vm.conns)) = vm.conns]_<<pc, vm>>
    /\ [](call.op = "Shutdown" =>
            \A i \in 1..Len(vm.conns) : vm.conns[i].id \in closed)

\* the Dial of the second of two triples has failed: the call returned an error
\* and no handlers, and the first triple's connection is in vm.conns
C22_Witness ==
    /\ call.op = "CreateHandlers"
    /\ call.rpcErr = Nil
    /\ Len(call.resp) = 2
    /\ call.in = 2
    /\ call.err # Nil
    /\ call.out.nil
    /\ Len(vm.conns) = 1
    /\ vm.conns[1].addr = call.resp[1].ServerAddr

(***************************************************************************)
(* C23 -- handles keep what the caller asked for.                          *)
(***************************************************************************)
\* C23: a handle GetBlock returns has the id the caller asked for; a summary
\* handle GetStateSummary returns has the height the caller asked for; a summary
\* handle ParseStateSummary returns has the bytes the caller passed; whatever
\* id, height or bytes the response holds.
C23_HandleKeepsRequest ==
    /\ (call.op = "GetBlock" /\ ~call.out.nil) =>
         (call.out.id = call.in /\ call.rpcs[1].Id = call.in)
    /\ (call.op = "GetStateSummary" /\ ~call.out.nil) =>
         (call.out.height = call.in /\ call.rpcs[1].Height = call.in)
    /\ (call.op = "ParseStateSummary" /\ ~call.out.nil) =>
         (call.out.bytes = call.in /\ call.rpcs[1].Bytes = call.in)

\* GetStateSummary has returned, without error, a handle of the height asked
\* for from a response that holds another height
C23_Witness ==
    /\ call.op = "GetStateSummary"
    /\ ~call.out.nil
    /\ call.err = Nil
    /\ call.resp.Height # call.in
    /\ call.out.height = call.in


(***************************************************************************)
(* C24: the lock middleware enforces the declared lock option.             *)
(***************************************************************************)
\* the goroutine holds the chain's lock for writing, for reading, or at all
HoldsWrite(t) == engine.Lock.w = t
HoldsRead(t) == t \in engine.Lock.r
Holds(t) == HoldsWrite(t) \/ HoldsRead(t)
\* the handler of the goroutine's request has started and has not returned
InHandler(t) == pc[t] \in {"running", "wrl_add", "wrl_rlock"}

\* C24: a handler registered with Write runs only while its goroutine holds the
\* chain's lock for writing, one registered with Read only while it holds the
\* lock for reading, and one registered with None without holding the lock and
\* without having taken it; a Write handler never runs together with another
\* Write or Read handler; a request that is not between before() and after()
\* holds no lock, and a handler that has returned leads to the release of the
\* lock.
C24_LockMiddlewareEnforces ==
    /\ [](\A t \in RequestThreads :
            /\ InHandler(t) =>
                 /\ frame[t].route.lockOption = WriteLock => HoldsWrite(t)
                 /\ frame[t].route.lockOption = ReadLock => HoldsRead(t)
                 /\ frame[t].route.lockOption = NoLock =>
                      ~Holds(t) /\ ~frame[t].locked
            /\ \A u \in RequestThreads \ {t} :
                 InHandler(t) /\ InHandler(u)
                     /\ frame[t].route.lockOption = WriteLock
                   => frame[u].route.lockOption = NoLock
            /\ pc[t] \in {"idle", "reject", "before", "respond"} => ~Holds(t))
    /\ \A t \in RequestThreads : (pc[t] = "after") ~> ~Holds(t)

\* a Write handler runs while a request for a Read handler waits for the
\* chain's lock
C24_Witness ==
    /\ InHandler("r1") /\ frame["r1"].route.lockOption = WriteLock
    /\ pc["r2"] = "before" /\ frame["r2"].route.lockOption = ReadLock

(***************************************************************************)
(* C25: requests to a chain that is not in normal operation are rejected.  *)
(***************************************************************************)
\* C25: a request to a chain route that is past the check of the chain's state
\* either was checked while the chain was in NormalOp, or it was checked while
\* the chain was bootstrapping or state-syncing and then it is answered with
\* 503 Service Unavailable, its handler is not invoked and the chain's lock was
\* not acquired for it.
C25_RejectedUnlessNormalOp ==
    \A t \in RequestThreads :
        frame[t].op = "ServeHTTP" /\ frame[t].route.gated /\ pc[t] # "reject" =>
            \/ /\ frame[t].state = "NormalOp"
               /\ frame[t].status # StatusServiceUnavailable
            \/ /\ frame[t].state \in {"Bootstrapping", "StateSyncing"}
               /\ frame[t].status = StatusServiceUnavailable
               /\ pc[t] = "respond"
               /\ ~frame[t].invoked
               /\ ~frame[t].locked
               /\ ~Holds(t)

\* a request for a Write handler is answered with 503 while the chain is
\* bootstrapping, and another request runs its handler after the chain has
\* reached NormalOp
C25_Witness ==
    /\ pc["r1"] = "respond"
    /\ frame["r1"].status = StatusServiceUnavailable
    /\ frame["r1"].state = "Bootstrapping"
    /\ frame["r1"].route.lockOption = WriteLock
    /\ pc["r2"] = "running" /\ frame["r2"].route.gated

(***************************************************************************)
(* C26: RegisterChain does not take the chain's context lock itself.       *)
(***************************************************************************)
\* the step in which RegisterChain is called and returns
RegisterChainStep ==
    frame[Caller].op # "RegisterChain" /\ frame'[Caller].op = "RegisterChain"
\* the handlers of a set that registerChain has to add: those with a
\* well-formed suffix and a known lock option
Registrable(handlers) ==
    {extension \in DOMAIN handlers :
        /\ extension = "" \/ ~ParseRequestURIFails(extension)
        /\ handlers[extension] \in {WriteLock, ReadLock, NoLock}}
\* the router has a route of the chain for the suffix
HasChainRoute(extension) ==
    \E x \in router.routes : x.base = ChainURL /\ x.endpoint = extension

\* C26: RegisterChain can be called by a caller that holds the chain's context
\* lock and returns without touching the lock; the goroutine it starts calls
\* CreateHandlers only while it holds the lock for writing, no longer holds it
\* when it adds routes, and, when the lock does not stay taken forever, ends
\* with a route for every handler CreateHandlers returned that can be added.
C26_RegisterChainDoesNotBlock ==
    /\ [](pc[Registrar] = "idle" => ENABLED RegisterChain)
    /\ [][RegisterChainStep => engine' = engine]_<<frame, engine>>
    /\ [](/\ pc[Registrar] \in {"rc_create", "rc_unlock"} => HoldsWrite(Registrar)
          /\ frame[Registrar].op = "registerChain" => frame[Registrar].locked
          /\ pc[Registrar] \in {"rc_range", "rc_add", "rc_done"} => ~Holds(Registrar))
    /\ ([]<>CanLock(engine.Lock)) =>
          ((pc[Registrar] = "rc_lock") ~>
             (/\ pc[Registrar] = "rc_done"
              /\ \A extension \in Registrable(frame[Registrar].handlers) :
                   HasChainRoute(extension)))

\* RegisterChain was called by a caller that held the lock, and the
\* registration has ended with the two routes of the chain
C26_Witness ==
    /\ frame[Caller].op = "RegisterChain" /\ frame[Caller].held
    /\ pc[Registrar] = "rc_done"
    /\ frame[Registrar].err = Nil
    /\ HasChainRoute("") /\ HasChainRoute("/rpc")

(***************************************************************************)
(* C27: the WithReadLock variants give the router's read lock back.        *)
(***************************************************************************)
\* the goroutine holds the router's lock for reading
HoldsRouterRead(t) == t \in router.lock.r
\* the step in which AddRouteWithReadLock or AddAliasesWithReadLock returns
WithReadLockReturns(t) == pc[t] = "wrl_rlock" /\ pc'[t] = "running"

\* C27: a handler runs, and calls AddRouteWithReadLock or
\* AddAliasesWithReadLock, while its goroutine holds the router's read lock;
\* between the call and the return the goroutine does not hold the lock; the
\* return takes the read lock for the goroutine and changes nothing else of
\* the lock, and after the return, whatever error was returned, the goroutine
\* holds the read lock as it did on entry.
C27_ReadLockReleasedAndRetaken ==
    /\ [](\A t \in RequestThreads :
            /\ pc[t] \in {"wrl_add", "wrl_rlock"} => ~HoldsRouterRead(t)
            /\ pc[t] \in {"reject", "before", "running", "after", "respond"}
                 => HoldsRouterRead(t) /\ router.lock.w = "")
    /\ [][\A t \in RequestThreads :
            WithReadLockReturns(t) =>
                /\ router'.lock.r = router.lock.r \cup {t}
                /\ router'.lock.w = router.lock.w
                /\ frame'[t].adding = "done"]_<<pc, frame, router>>

\* one handler is back from an AddRouteWithReadLock that failed with the
\* invalid-lock-options error, another from one that failed because the route
\* exists, and the router has the alias a third call added
C27_Witness ==
    /\ pc["r1"] = "running" /\ frame["r1"].adding = "done"
    /\ frame["r1"].err = errUnknownLockOption
    /\ pc["r2"] = "running" /\ frame["r2"].adding = "done"
    /\ frame["r2"].err = errAlreadyExists
    /\ router.aliases # {}

(***************************************************************************)
(* C28: handlers with an unknown lock option are rejected.                 *)
(***************************************************************************)
\* the step in which the addRoute of AddRouteWithReadLock returns
AddRouteReturns(t) ==
    pc[t] = "wrl_add" /\ frame[t].adding = "route" /\ pc'[t] # "wrl_add"

\* C28: no route of the router has a handler whose lock option is none of
\* None, Read, Write; adding a handler with such an option returns the
\* invalid-lock-options error and leaves the router's routes as they were;
\* when registerChain has gone through a handler set, the handlers it skipped
\* are exactly those with such an option or with a malformed suffix, none of
\* them has a route, and every other handler of the set has its route with
\* its lock option.
C28_UnknownLockOptionRejected ==
    /\ [](\A x \in router.routes : x.lockOption \in {WriteLock, ReadLock, NoLock})
    /\ [][\A t \in RequestThreads :
            AddRouteReturns(t) /\ frame[t].lockOption \notin {WriteLock, ReadLock, NoLock}
              => /\ frame'[t].err = errUnknownLockOption
                 /\ router'.routes = router.routes]_<<pc, frame, router>>
    /\ [](pc[Registrar] = "rc_done" /\ frame[Registrar].err = Nil =>
            LET handlers == frame[Registrar].handlers
            IN  /\ frame[Registrar].skipped = DOMAIN handlers \ Registrable(handlers)
                /\ \A extension \in frame[Registrar].skipped : ~HasChainRoute(extension)
                /\ \A extension \in Registrable(handlers) :
                     \E x \in router.routes :
                        /\ x.base = ChainURL /\ x.endpoint = extension
                        /\ x.lockOption = handlers[extension])

\* registerChain has skipped the handler with the unknown lock option and
\* registered the other handler of the set, and an AddRouteWithReadLock with
\* an unknown lock option has returned the error
C28_Witness ==
    /\ pc[Registrar] = "rc_done"
    /\ frame[Registrar].skipped = {""}
    /\ HasChainRoute("/rpc")
    /\ pc["r1"] = "wrl_rlock" /\ frame["r1"].err = errUnknownLockOption

====
